-------------------------- MODULE McpRuntimeProofs --------------------------
(***************************************************************************)
(* Proofs about the runtime of the MCP servers: types, and that reloads    *)
(* which do not overlap lose no client, for any servers, configurations,   *)
(* clients and numbers of reloads and tests.                               *)
(*                                                                         *)
(* The argument: a client that is open is registered or is the one a       *)
(* loader is starting (Traced), so that there are at most as many open     *)
(* clients as servers and loaders, and a new one can be had.  The lists of *)
(* loaded clients, those of the loaders and that of the manager, hold open *)
(* and registered clients and share none (Lists).  As long as no reload    *)
(* started during another one, what is registered is on one of the lists   *)
(* (Undisturbed).                                                          *)
(*                                                                         *)
(* A loader that goes on with the next server does so in the middle of an  *)
(* action, when clients and tools have changed already: the parts of the   *)
(* invariant take the clients, the tools and the loaders that count as     *)
(* parameters, and the list `mine` of the loader that goes on.             *)
(*                                                                         *)
(* At the end, MCServices, which puts this runtime, the automations and    *)
(* the deliveries side by side.                                            *)
(***************************************************************************)
EXTENDS MCServices, AutomationLeaseProofs, ChannelDeliveryProofs, FiniteSetTheorems, TLAPS

McpClient == [open: BOOLEAN, server: Server, runs: BOOLEAN]
Clients == [Client -> McpClient]
Registry == [Server -> Client \cup {NoClient}]
Load == [kind: {"reload", "test"}, client: Client, todo: Seq(Server), loaded: Seq(Client)]
Loads == [Loader -> Load \cup {Idle}]

McpTyped ==
  /\ clients \in Clients
  /\ pending \subseteq McpRequest /\ unsettled \subseteq McpRequest
  /\ registry \in Registry
  /\ activeMcp \in Seq(Client)
  /\ loaders \in Loads
  /\ overlapped \in BOOLEAN

(* The clients that are being started are open, nobody knows them yet, and *)
(* no two loaders start the same.                                          *)
Starting(now, reg, ld, L) ==
  \A w \in L : ld[w] # Idle =>
    /\ now[ld[w].client].open
    /\ \A s \in Server : reg[s] # ld[w].client
    /\ \A v \in L : ld[v] # Idle /\ ld[v].client = ld[w].client => v = w

Traced(now, reg, ld, L) ==
  \A c \in Client : now[c].open =>
    \/ \E s \in Server : reg[s] = c
    \/ \E w \in L : ld[w] # Idle /\ ld[w].client = c

Registered(now, reg) ==
  \A s \in Server : reg[s] # NoClient => now[reg[s]].open

(* A list of loaded clients: open, registered and different.               *)
Serves(now, reg, list) ==
  /\ \A i \in DOMAIN list : now[list[i]].open /\ reg[now[list[i]].server] = list[i]
  /\ IsInjective(list)

Apart(one, other) == \A i \in DOMAIN one, j \in DOMAIN other : one[i] # other[j]

Lists(now, reg, act, ld, L, mine) ==
  /\ Serves(now, reg, act) /\ Serves(now, reg, mine) /\ Apart(act, mine)
  /\ \A w \in L : ld[w] # Idle =>
       /\ Serves(now, reg, ld[w].loaded)
       /\ Apart(act, ld[w].loaded) /\ Apart(mine, ld[w].loaded)
       /\ \A v \in L : ld[v] # Idle /\ v # w => Apart(ld[v].loaded, ld[w].loaded)
       /\ ld[w].kind = "test" => ld[w].todo = <<>> /\ ld[w].loaded = <<>>

(* What `active` of the manager is for a loader that goes on with the next *)
(* server: a reload that starts has emptied it.                            *)
ActiveFor(w) == IF Busy(w) THEN activeMcp ELSE <<>>

Sound(now, reg, act, ld, L, mine) ==
  /\ Starting(now, reg, ld, L)
  /\ Traced(now, reg, ld, L)
  /\ Registered(now, reg)
  /\ Lists(now, reg, act, ld, L, mine)

Undisturbed ==
  ~overlapped =>
    /\ \A v, w \in Loader :
         Busy(v) /\ Busy(w) /\ loaders[v].kind = "reload" /\ loaders[w].kind = "reload" => v = w
    /\ \A w \in Loader : Busy(w) /\ loaders[w].kind = "reload" => activeMcp = <<>>
    /\ \A s \in Server : registry[s] # NoClient =>
         \/ registry[s] \in ToSet(activeMcp)
         \/ \E w \in Loader : Busy(w) /\ registry[s] \in ToSet(loaders[w].loaded)

McpInv ==
  /\ McpTyped
  /\ Sound(clients, registry, activeMcp, loaders, Loader, <<>>)
  /\ Undisturbed

-----------------------------------------------------------------------------
(* What is closed, opened or idle has the right type.                      *)
LEMMA McpClientTypes ==
  /\ Closed \in McpClient /\ ~Closed.open
  /\ \A s \in Server : Opened(s) \in McpClient /\ Opened(s).open /\ Opened(s).server = s
  /\ Idle \notin Load
<1>1. (CHOOSE s \in Server : TRUE) \in Server
  BY McpAssumption DEF McpAssumption
<1>2. Closed \in McpClient /\ ~Closed.open
  BY <1>1 DEF Closed, McpClient
<1>3. \A s \in Server : Opened(s) \in McpClient /\ Opened(s).open /\ Opened(s).server = s
  BY DEF Opened, McpClient
<1>4. Idle \notin Load
  BY DEF Idle, Load
<1> QED BY <1>2, <1>3, <1>4

(* The image of a finite set is no larger than the set.                    *)
LEMMA Image ==
  ASSUME NEW S, IsFiniteSet(S), NEW f, DOMAIN f = S
  PROVE  /\ IsFiniteSet({f[x] : x \in S})
         /\ Cardinality({f[x] : x \in S}) <= Cardinality(S)
<1> DEFINE T == {f[x] : x \in S}
           g == [x \in S |-> f[x]]
<1>1. g \in Surjection(S, T)
  BY DEF Surjection
<1> QED BY <1>1, FS_Surjection

(* While a loader has no client of its own, a new client can be had.       *)
LEMMA NewClient ==
  ASSUME NEW now \in Clients, NEW reg \in Registry, NEW ld \in Loads, NEW w \in Loader,
         Traced(now, reg, ld, Loader \ {w})
  PROVE  New(now) \in Client /\ ~now[New(now)].open
<1> SUFFICES ASSUME \A c \in Client : now[c].open
             PROVE  FALSE
  BY DEF New
<1> DEFINE R == {reg[s] : s \in Server}
           B == {v \in Loader \ {w} : ld[v] # Idle}
           h == [v \in B |-> ld[v].client]
           K == {h[v] : v \in B}
<1>1. /\ IsFiniteSet(Client) /\ IsFiniteSet(Server) /\ IsFiniteSet(Loader)
      /\ Cardinality(Client) >= Cardinality(Server) + Cardinality(Loader)
  BY McpAssumption DEF McpAssumption
<1>2. IsFiniteSet(R) /\ Cardinality(R) <= Cardinality(Server)
  BY <1>1, Image DEF Registry
<1>3. /\ IsFiniteSet(Loader \ {w})
      /\ Cardinality(Loader \ {w}) = Cardinality(Loader) - 1
  BY <1>1, FS_RemoveElement
<1>4. IsFiniteSet(B) /\ Cardinality(B) <= Cardinality(Loader) - 1
  BY <1>3, FS_Subset
<1>5. IsFiniteSet(K) /\ Cardinality(K) <= Cardinality(B)
  <2>1. DOMAIN h = B
    OBVIOUS
  <2> HIDE DEF h, B
  <2> QED BY <1>4, <2>1, Image
<1>6. Client \subseteq R \cup K
  <2> SUFFICES ASSUME NEW c \in Client
               PROVE  c \in R \cup K
    OBVIOUS
  <2>1. CASE \E s \in Server : reg[s] = c
    BY <2>1
  <2>2. CASE \E v \in Loader \ {w} : ld[v] # Idle /\ ld[v].client = c
    <3>1. PICK v \in B : ld[v].client = c
      BY <2>2
    <3>2. h[v] = c
      BY <3>1
    <3> QED BY <3>1, <3>2
  <2> QED BY <2>1, <2>2 DEF Traced
<1>7. /\ IsFiniteSet(R \cup K)
      /\ Cardinality(R \cup K) = Cardinality(R) + Cardinality(K) - Cardinality(R \cap K)
  BY <1>2, <1>5, FS_Union
<1>8. Cardinality(Client) <= Cardinality(R \cup K)
  BY <1>6, <1>7, FS_Subset
<1>9. IsFiniteSet(R \cap K)
  BY <1>2, FS_Subset
<1>10. /\ Cardinality(R) \in Nat /\ Cardinality(K) \in Nat /\ Cardinality(B) \in Nat
       /\ Cardinality(R \cap K) \in Nat /\ Cardinality(R \cup K) \in Nat
       /\ Cardinality(Client) \in Nat /\ Cardinality(Server) \in Nat
       /\ Cardinality(Loader) \in Nat
  BY <1>1, <1>2, <1>4, <1>5, <1>7, <1>9, FS_CardinalityType
<1> HIDE DEF R, K, B, h
<1> QED BY <1>1, <1>2, <1>4, <1>5, <1>7, <1>8, <1>10

-----------------------------------------------------------------------------
(* Going on with the next server.                                          *)

(* Nothing is on an empty list.                                            *)
LEMMA EmptyList ==
  /\ \A now, reg : Serves(now, reg, <<>>)
  /\ \A list : Apart(list, <<>>) /\ Apart(<<>>, list)
  /\ ToSet(<<>>) = {}
  /\ \A S : <<>> \in Seq(S)
  BY DEF Serves, Apart, IsInjective, ToSet

(* A list in one order is apart from another in both.                      *)
LEMMA ApartBothWays ==
  ASSUME NEW one, NEW other
  PROVE  Apart(one, other) <=> Apart(other, one)
  BY DEF Apart

(* The requests stay requests of clients.                                  *)
LEMMA RequestsTyped ==
  ASSUME McpTyped, NEW old, NEW new, new \subseteq McpRequest, Requests(old, new)
  PROVE  pending' \subseteq McpRequest /\ unsettled' \subseteq McpRequest
  BY DEF McpTyped, Requests

(* Whether the loader is done or starts the next client, the clients, the  *)
(* tools and the lists fit together again, its list being `loaded`.        *)
LEMMA LoaderGoesOn ==
  ASSUME McpTyped,
         NEW w \in Loader, NEW todo \in Seq(Server), NEW loaded \in Seq(Client),
         NEW now \in Clients, NEW reg \in Registry, NEW old,
         Sound(now, reg, ActiveFor(w), loaders, Loader \ {w}, loaded),
         LoadNext(w, todo, loaded, now, old)
  PROVE  /\ clients' \in Clients /\ activeMcp' \in Seq(Client) /\ loaders' \in Loads
         /\ pending' \subseteq McpRequest /\ unsettled' \subseteq McpRequest
         /\ Sound(clients', reg, activeMcp', loaders', Loader, <<>>)
         /\ \A v \in Loader \ {w} : loaders'[v] = loaders[v]
         /\ \/ loaders'[w] = Idle /\ activeMcp' = loaded
            \/ /\ loaders'[w] # Idle /\ loaders'[w].loaded = loaded
               /\ activeMcp' = ActiveFor(w)
<1> DEFINE act == ActiveFor(w)
           W   == Loader \ {w}
<1>0. /\ loaders \in Loads /\ activeMcp \in Seq(Client) /\ act \in Seq(Client)
      /\ Starting(now, reg, loaders, W) /\ Traced(now, reg, loaders, W)
      /\ Registered(now, reg) /\ Lists(now, reg, act, loaders, W, loaded)
  BY EmptyList DEF Sound, McpTyped, ActiveFor
<1>1. CASE /\ todo = <<>> /\ activeMcp' = loaded /\ clients' = now
           /\ loaders' = [loaders EXCEPT ![w] = Idle] /\ Requests(old, {})
  <2>1. /\ loaders' \in Loads /\ loaders'[w] = Idle
        /\ \A v \in W : loaders'[v] = loaders[v]
    BY <1>0, <1>1 DEF Loads
  <2>2. pending' \subseteq McpRequest /\ unsettled' \subseteq McpRequest
    BY <1>1, RequestsTyped
  <2>3. Starting(now, reg, loaders', Loader)
    <3>1. \A v \in Loader : loaders'[v] # Idle => v \in W /\ loaders'[v] = loaders[v]
      BY <2>1
    <3>2. ASSUME NEW v \in Loader, loaders'[v] # Idle
          PROVE  /\ now[loaders'[v].client].open
                 /\ \A s \in Server : reg[s] # loaders'[v].client
                 /\ \A u \in Loader : loaders'[u] # Idle
                      /\ loaders'[u].client = loaders'[v].client => u = v
      <4>1. v \in W /\ loaders'[v] = loaders[v]
        BY <3>1, <3>2
      <4> QED BY <1>0, <3>1, <3>2, <4>1 DEF Starting
    <3> QED BY <3>2 DEF Starting
  <2>4. Traced(now, reg, loaders', Loader)
    BY <1>0, <2>1 DEF Traced
  <2>5. Lists(now, reg, loaded, loaders', Loader, <<>>)
    BY <1>0, <2>1, EmptyList DEF Lists
  <2> QED BY <1>0, <1>1, <2>1, <2>2, <2>3, <2>4, <2>5 DEF Sound
<1>2. CASE /\ todo # <<>> /\ activeMcp' = act
           /\ LET c == New(now) IN
                /\ clients' = [now EXCEPT ![c] = Opened(Head(todo))]
                /\ Requests(old, {<<c, "initialize">>})
                /\ loaders' = [loaders EXCEPT ![w] =
                     [kind |-> "reload", client |-> c, todo |-> Tail(todo),
                      loaded |-> loaded]]
  <2> DEFINE c == New(now)
             s == Head(todo)
             load == [kind |-> "reload", client |-> c, todo |-> Tail(todo), loaded |-> loaded]
  <2>1. c \in Client /\ ~now[c].open
    BY <1>0, NewClient
  <2>2. s \in Server /\ Tail(todo) \in Seq(Server)
    BY <1>2
  <2>3. /\ clients' = [now EXCEPT ![c] = Opened(s)] /\ clients' \in Clients
        /\ clients'[c].open /\ \A k \in Client \ {c} : clients'[k] = now[k]
    BY <1>2, <2>1, <2>2, McpClientTypes DEF Clients
  <2>4. load \in Load /\ load # Idle /\ load.client = c /\ load.loaded = loaded
        /\ load.kind = "reload"
    BY <2>1, <2>2 DEF Load, Idle
  <2> HIDE DEF s, c, load
  <2>5. /\ loaders' = [loaders EXCEPT ![w] = load] /\ Requests(old, {<<c, "initialize">>})
    BY <1>2 DEF c, load
  <2>6. /\ loaders' \in Loads /\ loaders'[w] = load
        /\ \A v \in W : loaders'[v] = loaders[v]
    BY <1>0, <2>4, <2>5 DEF Loads
  <2>7. pending' \subseteq McpRequest /\ unsettled' \subseteq McpRequest
    BY <2>1, <2>5, RequestsTyped DEF McpRequest, Method
  <2>8. \A t \in Server : reg[t] # c
    BY <1>0, <2>1, McpAssumption DEF Registered, McpAssumption, Registry
  <2>9. \A v \in W : loaders[v] # Idle => loaders[v].client # c
    BY <1>0, <2>1 DEF Starting
  <2>10. Starting(clients', reg, loaders', Loader)
    <3> SUFFICES ASSUME NEW v \in Loader, loaders'[v] # Idle
                 PROVE  /\ clients'[loaders'[v].client].open
                        /\ \A t \in Server : reg[t] # loaders'[v].client
                        /\ \A u \in Loader : loaders'[u] # Idle
                             /\ loaders'[u].client = loaders'[v].client => u = v
      BY DEF Starting
    <3>1. CASE v = w
      BY <3>1, <2>3, <2>4, <2>6, <2>8, <2>9
    <3>2. CASE v # w
      <4>1. loaders[v].client \in Client
        BY <1>0, <2>6, <3>2 DEF Loads, Load
      <4> QED BY <3>2, <4>1, <1>0, <2>3, <2>4, <2>6, <2>9 DEF Starting
    <3> QED BY <3>1, <3>2
  <2>11. Traced(clients', reg, loaders', Loader)
    <3> SUFFICES ASSUME NEW k \in Client, clients'[k].open
                 PROVE  \/ \E t \in Server : reg[t] = k
                        \/ \E v \in Loader : loaders'[v] # Idle /\ loaders'[v].client = k
      BY DEF Traced
    <3>1. CASE k = c
      BY <2>4, <2>6, <3>1
    <3>2. CASE k # c
      <4>1. now[k].open
        BY <2>3, <3>2
      <4>2. \/ \E t \in Server : reg[t] = k
            \/ \E v \in W : loaders[v] # Idle /\ loaders[v].client = k
        BY <1>0, <4>1 DEF Traced
      <4> QED BY <2>6, <4>2
    <3> QED BY <3>1, <3>2
  <2>12. Registered(clients', reg)
    BY <1>0, <2>3, <2>8, McpAssumption DEF Registered, Registry, McpAssumption
  <2>13. ASSUME NEW list \in Seq(Client), Serves(now, reg, list)
         PROVE  Serves(clients', reg, list)
    BY <2>1, <2>3, <2>13 DEF Serves
  <2>14. \A v \in W : loaders[v] # Idle => loaders[v].loaded \in Seq(Client)
    BY <1>0 DEF Loads, Load
  <2>15. Lists(clients', reg, act, loaders', Loader, <<>>)
    <3>1. Serves(clients', reg, act) /\ Serves(clients', reg, <<>>) /\ Apart(act, <<>>)
      BY <1>0, <2>13, EmptyList DEF Lists
    <3>2. ASSUME NEW v \in Loader, loaders'[v] # Idle
          PROVE  /\ Serves(clients', reg, loaders'[v].loaded)
                 /\ Apart(act, loaders'[v].loaded) /\ Apart(<<>>, loaders'[v].loaded)
                 /\ loaders'[v].kind = "test" =>
                      loaders'[v].todo = <<>> /\ loaders'[v].loaded = <<>>
      <4>1. CASE v = w
        BY <4>1, <1>0, <2>4, <2>6, <2>13, EmptyList DEF Lists
      <4>2. CASE v # w
        BY <4>2, <3>2, <1>0, <2>6, <2>13, <2>14, EmptyList DEF Lists
      <4> QED BY <4>1, <4>2
    <3>3. ASSUME NEW v \in Loader, loaders'[v] # Idle, NEW u \in Loader,
                 loaders'[u] # Idle, u # v
          PROVE  Apart(loaders'[u].loaded, loaders'[v].loaded)
      BY <3>3, <1>0, <2>4, <2>6, ApartBothWays DEF Lists
    <3> QED BY <3>1, <3>2, <3>3 DEF Lists
  <2> HIDE DEF act
  <2> QED BY <1>0, <1>2, <2>3, <2>4, <2>6, <2>7, <2>10, <2>11, <2>12, <2>15 DEF Sound, act
<1> QED BY <1>1, <1>2 DEF LoadNext, ActiveFor

-----------------------------------------------------------------------------
(* The steps.                                                              *)

(* Only requests are made and settled.                                     *)
LEMMA OnlyRequests ==
  ASSUME McpInv, NEW old, NEW new, new \subseteq McpRequest, Requests(old, new),
         UNCHANGED <<clients, registry, activeMcp, loaders, overlapped>>
  PROVE  McpInv'
<1>1. pending' \subseteq McpRequest /\ unsettled' \subseteq McpRequest
  BY RequestsTyped DEF McpInv
<1>2. McpTyped'
  BY <1>1 DEF McpInv, McpTyped
<1>3. Sound(clients, registry, activeMcp, loaders, Loader, <<>>)'
  BY DEF McpInv
<1>4. Undisturbed'
  BY DEF McpInv, Undisturbed, Busy
<1> QED BY <1>2, <1>3, <1>4 DEF McpInv

(* Tests register nothing: what is registered is on the list of the loader *)
(* that goes on.                                                           *)
LEMMA GoesOnUndisturbed ==
  ASSUME McpTyped, NEW w \in Loader, NEW loaded \in Seq(Client),
         loaders' \in Loads,
         Lists(clients', registry', activeMcp', loaders', Loader, <<>>),
         \A v \in Loader \ {w} : loaders'[v] = loaders[v],
         \/ loaders'[w] = Idle /\ activeMcp' = loaded
         \/ /\ loaders'[w] # Idle /\ loaders'[w].loaded = loaded
            /\ activeMcp' = ActiveFor(w),
         ~overlapped' =>
           /\ \A v \in Loader \ {w} : Busy(v) => loaders[v].kind # "reload"
           /\ Busy(w) => activeMcp = <<>>
           /\ \A s \in Server : registry'[s] # NoClient => registry'[s] \in ToSet(loaded)
  PROVE  Undisturbed'
<1> SUFFICES ASSUME ~overlapped'
             PROVE  /\ \A v, u \in Loader : Busy(v)' /\ Busy(u)' /\ loaders'[v].kind = "reload"
                         /\ loaders'[u].kind = "reload" => v = u
                    /\ \A v \in Loader : Busy(v)' /\ loaders'[v].kind = "reload" =>
                         activeMcp' = <<>>
                    /\ \A s \in Server : registry'[s] # NoClient =>
                         \/ registry'[s] \in ToSet(activeMcp')
                         \/ \E v \in Loader : Busy(v)' /\ registry'[s] \in ToSet(loaders'[v].loaded)
  BY DEF Undisturbed
<1>1. \A v \in Loader \ {w} : Busy(v)' => loaders'[v].kind # "reload"
  BY DEF Busy
<1>2. CASE loaders'[w] = Idle /\ activeMcp' = loaded
  BY <1>1, <1>2 DEF Busy
<1>3. CASE loaders'[w] # Idle /\ loaders'[w].loaded = loaded /\ activeMcp' = <<>>
  BY <1>1, <1>3 DEF Busy
<1> QED BY <1>2, <1>3 DEF ActiveFor

(* A loader leaves the client it was starting, which nobody knows.         *)
LEMMA Left ==
  ASSUME McpInv, NEW w \in Loader, Busy(w), NEW now \in Clients,
         \A k \in Client : now[k].open = clients[k].open /\ now[k].server = clients[k].server
  PROVE  LET gone == [now EXCEPT ![loaders[w].client] = Closed] IN
         /\ gone \in Clients /\ loaders[w] \in Load
         /\ Sound(gone, registry, activeMcp, loaders, Loader \ {w}, loaders[w].loaded)
<1> DEFINE c == loaders[w].client
           W == Loader \ {w}
           gone == [now EXCEPT ![c] = Closed]
<1>0. /\ clients \in Clients /\ registry \in Registry /\ activeMcp \in Seq(Client)
      /\ loaders \in Loads
      /\ Starting(clients, registry, loaders, Loader)
      /\ Traced(clients, registry, loaders, Loader)
      /\ Registered(clients, registry)
      /\ Lists(clients, registry, activeMcp, loaders, Loader, <<>>)
  BY DEF McpInv, Sound, McpTyped
<1>1. loaders[w] # Idle /\ loaders[w] \in Load
  BY <1>0 DEF Busy, Loads
<1>2. c \in Client /\ loaders[w].loaded \in Seq(Client)
  BY <1>1 DEF Load
<1>3. gone \in Clients
  BY <1>2, McpClientTypes DEF Clients
<1>4. /\ \A k \in Client \ {c} :
           gone[k].open = clients[k].open /\ gone[k].server = clients[k].server
      /\ ~gone[c].open
  BY <1>2, McpClientTypes DEF Clients
<1>5. \A s \in Server : registry[s] # c
  BY <1>0, <1>1 DEF Starting
<1>6. \A v \in W : loaders[v] # Idle => loaders[v].client \in Client \ {c}
  <2> SUFFICES ASSUME NEW v \in W, loaders[v] # Idle
               PROVE  loaders[v].client \in Client \ {c}
    OBVIOUS
  <2>1. loaders[v] \in Load
    BY <1>0 DEF Loads
  <2> QED BY <1>0, <1>1, <2>1 DEF Starting, Load
<1> HIDE DEF gone, c
<1>7. Starting(gone, registry, loaders, W)
  BY <1>0, <1>4, <1>6 DEF Starting
<1>8. Traced(gone, registry, loaders, W)
  BY <1>0, <1>4 DEF Traced, c
<1>9. Registered(gone, registry)
  BY <1>0, <1>4, <1>5 DEF Registered, Registry
<1>10. ASSUME NEW list \in Seq(Client), Serves(clients, registry, list)
       PROVE  Serves(gone, registry, list)
  <2> SUFFICES ASSUME NEW i \in DOMAIN list
               PROVE  gone[list[i]].open /\ registry[gone[list[i]].server] = list[i]
    BY <1>10 DEF Serves
  <2>1. list[i] \in Client /\ clients[list[i]].server \in Server
    BY <1>0 DEF Clients, McpClient
  <2>2. registry[clients[list[i]].server] = list[i] /\ clients[list[i]].open
    BY <1>10 DEF Serves
  <2>3. list[i] # c
    BY <1>5, <2>1, <2>2
  <2> QED BY <1>4, <2>1, <2>2, <2>3
<1>11. \A v \in Loader : loaders[v] # Idle => loaders[v].loaded \in Seq(Client)
  BY <1>0 DEF Loads, Load
<1>12. Lists(gone, registry, activeMcp, loaders, W, loaders[w].loaded)
  BY <1>0, <1>1, <1>10, <1>11 DEF Lists
<1> QED BY <1>1, <1>3, <1>7, <1>8, <1>9, <1>12 DEF Sound, gone, c

(* A load that fails, or a test that ends, leaves the rest in order.       *)
LEMMA Abandons ==
  ASSUME McpInv, NEW w \in Loader, Busy(w), NEW now \in Clients,
         \A k \in Client : now[k].open = clients[k].open /\ now[k].server = clients[k].server,
         Abandon(w, now), UNCHANGED <<registry, overlapped>>
  PROVE  McpInv'
<1> DEFINE c == loaders[w].client
           gone == [now EXCEPT ![c] = Closed]
<1>0. McpTyped /\ Undisturbed
  BY DEF McpInv
<1>1. /\ gone \in Clients /\ loaders[w] \in Load
      /\ Sound(gone, registry, activeMcp, loaders, Loader \ {w}, loaders[w].loaded)
  BY Left
<1>2. /\ loaders \in Loads /\ registry \in Registry /\ activeMcp \in Seq(Client)
      /\ registry' \in Registry /\ overlapped' \in BOOLEAN /\ registry' = registry
      /\ loaders[w].todo \in Seq(Server) /\ loaders[w].loaded \in Seq(Client)
      /\ Lists(clients, registry, activeMcp, loaders, Loader, <<>>)
  BY <1>0, <1>1 DEF McpTyped, Load, McpInv, Sound
<1> HIDE DEF gone
<1>3. CASE loaders[w].kind = "reload"
  <2>1. LoadNext(w, loaders[w].todo, loaders[w].loaded, gone, RequestsOf({c}))
    BY <1>3 DEF Abandon, gone
  <2>2. ActiveFor(w) = activeMcp
    BY DEF ActiveFor
  <2>3. /\ clients' \in Clients /\ activeMcp' \in Seq(Client) /\ loaders' \in Loads
        /\ pending' \subseteq McpRequest /\ unsettled' \subseteq McpRequest
        /\ Sound(clients', registry, activeMcp', loaders', Loader, <<>>)
        /\ \A v \in Loader \ {w} : loaders'[v] = loaders[v]
        /\ \/ loaders'[w] = Idle /\ activeMcp' = loaders[w].loaded
           \/ /\ loaders'[w] # Idle /\ loaders'[w].loaded = loaders[w].loaded
              /\ activeMcp' = ActiveFor(w)
    BY <1>0, <1>1, <1>2, <2>1, <2>2, LoaderGoesOn
  <2>4. ~overlapped' =>
          /\ \A v \in Loader \ {w} : Busy(v) => loaders[v].kind # "reload"
          /\ Busy(w) => activeMcp = <<>>
          /\ \A s \in Server : registry'[s] # NoClient => registry'[s] \in ToSet(loaders[w].loaded)
    <3> SUFFICES ASSUME ~overlapped
                 PROVE  /\ \A v \in Loader \ {w} : Busy(v) => loaders[v].kind # "reload"
                        /\ activeMcp = <<>>
                        /\ \A s \in Server : registry[s] # NoClient =>
                             registry[s] \in ToSet(loaders[w].loaded)
      OBVIOUS
    <3>1. /\ \A v \in Loader \ {w} : Busy(v) => loaders[v].kind # "reload"
          /\ activeMcp = <<>>
      BY <1>0, <1>3 DEF Undisturbed
    <3>2. \A v \in Loader \ {w} : Busy(v) => loaders[v].loaded = <<>>
      BY <1>2, <3>1 DEF Lists, Busy, Loads, Load
    <3>3. ASSUME NEW s \in Server, registry[s] # NoClient
          PROVE  registry[s] \in ToSet(loaders[w].loaded)
      BY <1>0, <3>1, <3>2, <3>3, EmptyList DEF Undisturbed
    <3> QED BY <3>1, <3>3
  <2>5. Sound(clients, registry, activeMcp, loaders, Loader, <<>>)'
    BY <1>2, <2>3
  <2>6. Undisturbed'
    BY <1>0, <1>2, <2>3, <2>4, <2>5, GoesOnUndisturbed DEF Sound
  <2>7. McpTyped'
    BY <1>2, <2>3 DEF McpTyped
  <2> QED BY <2>5, <2>6, <2>7 DEF McpInv
<1>4. CASE loaders[w].kind # "reload"
  <2>1. /\ clients' = gone /\ activeMcp' = activeMcp
        /\ Requests(RequestsOf({c}), {})
        /\ loaders' = [loaders EXCEPT ![w] = Idle]
    BY <1>4 DEF Abandon, gone
  <2>2. loaders' \in Loads /\ loaders'[w] = Idle
        /\ \A v \in Loader \ {w} : loaders'[v] = loaders[v]
    BY <1>2, <2>1 DEF Loads
  <2>3. pending' \subseteq McpRequest /\ unsettled' \subseteq McpRequest
    BY <1>0, <2>1, RequestsTyped
  <2>4. loaders[w].loaded = <<>>
    BY <1>1, <1>2, <1>4 DEF Load, Lists, Busy
  <2>5. Starting(clients', registry, loaders', Loader)
    BY <1>1, <2>1, <2>2 DEF Starting, Sound
  <2>6. Traced(clients', registry, loaders', Loader)
    BY <1>1, <2>1, <2>2 DEF Traced, Sound
  <2>7. Lists(clients', registry, activeMcp, loaders', Loader, <<>>)
    BY <1>1, <2>1, <2>2, <2>4 DEF Lists, Sound
  <2>8. Sound(clients, registry, activeMcp, loaders, Loader, <<>>)'
    BY <1>1, <1>2, <2>1, <2>5, <2>6, <2>7 DEF Sound
  <2>9. \A v \in Loader : Busy(v)' => Busy(v) /\ loaders'[v] = loaders[v]
    BY <2>2 DEF Busy
  <2>10. Undisturbed'
    <3>1. \A v \in Loader : Busy(v) /\ v # w => Busy(v)'
      BY <2>2 DEF Busy
    <3>2. ASSUME ~overlapped, NEW s \in Server, registry[s] # NoClient,
                 registry[s] \notin ToSet(activeMcp)
          PROVE  \E v \in Loader : Busy(v)' /\ registry[s] \in ToSet(loaders'[v].loaded)
      <4>1. PICK v \in Loader : Busy(v) /\ registry[s] \in ToSet(loaders[v].loaded)
        BY <1>0, <3>2 DEF Undisturbed
      <4>2. v # w
        BY <2>4, <4>1, EmptyList
      <4> QED BY <2>2, <3>1, <4>1, <4>2
    <3> QED BY <1>0, <1>2, <2>1, <2>9, <3>2 DEF Undisturbed
  <2>11. McpTyped'
    BY <1>1, <1>2, <2>1, <2>2, <2>3 DEF McpTyped
  <2> QED BY <2>8, <2>10, <2>11 DEF McpInv
<1> QED BY <1>3, <1>4

(* What the invariant says of each part, for the proofs of the steps.      *)
LEMMA Parts ==
  ASSUME McpInv
  PROVE  /\ McpTyped /\ Undisturbed
         /\ clients \in Clients /\ registry \in Registry /\ activeMcp \in Seq(Client)
         /\ loaders \in Loads /\ overlapped \in BOOLEAN
         /\ Starting(clients, registry, loaders, Loader)
         /\ Traced(clients, registry, loaders, Loader)
         /\ Registered(clients, registry)
         /\ Lists(clients, registry, activeMcp, loaders, Loader, <<>>)
         /\ \A v \in Loader : Busy(v) =>
              /\ loaders[v] # Idle /\ loaders[v] \in Load
              /\ loaders[v].client \in Client /\ loaders[v].todo \in Seq(Server)
              /\ loaders[v].loaded \in Seq(Client)
<1>1. McpTyped /\ Undisturbed
  BY DEF McpInv
<1>2. loaders \in Loads
  BY <1>1 DEF McpTyped
<1>3. \A v \in Loader : Busy(v) =>
        /\ loaders[v] # Idle /\ loaders[v] \in Load
        /\ loaders[v].client \in Client /\ loaders[v].todo \in Seq(Server)
        /\ loaders[v].loaded \in Seq(Client)
  BY <1>2 DEF Busy, Loads, Load
<1> QED BY <1>1, <1>2, <1>3 DEF McpInv, Sound, McpTyped

(* A reload takes away what was active, and only that.                     *)
LEMMA Reloads ==
  ASSUME McpInv, NEW servers \in Configs, ReloadServers(servers)
  PROVE  McpInv'
<1> DEFINE previous == ToSet(activeMcp)
           w == CHOOSE v \in IdleLoaders : TRUE
           now == Disconnected(previous)
           reg == [s \in Server |-> IF registry[s] \in previous THEN NoClient ELSE registry[s]]
           W == Loader \ {w}
<1>0. /\ McpTyped /\ Undisturbed
      /\ clients \in Clients /\ registry \in Registry /\ activeMcp \in Seq(Client)
      /\ loaders \in Loads /\ overlapped \in BOOLEAN
      /\ Starting(clients, registry, loaders, Loader)
      /\ Traced(clients, registry, loaders, Loader)
      /\ Registered(clients, registry)
      /\ Lists(clients, registry, activeMcp, loaders, Loader, <<>>)
      /\ \A v \in Loader : Busy(v) =>
           /\ loaders[v] # Idle /\ loaders[v] \in Load
           /\ loaders[v].client \in Client /\ loaders[v].todo \in Seq(Server)
           /\ loaders[v].loaded \in Seq(Client)
  BY Parts
<1>1. w \in Loader /\ ~Busy(w) /\ loaders[w] = Idle
  BY DEF ReloadServers, IdleLoaders, Busy
<1>2. /\ registry' = reg
      /\ LoadNext(w, servers, <<>>, now, RequestsOf(previous))
      /\ overlapped' = (overlapped \/ \E v \in Loader : Busy(v) /\ loaders[v].kind = "reload")
  BY DEF ReloadServers
<1>3. previous \subseteq Client
  BY <1>0 DEF ToSet
<1>4. /\ now \in Clients
      /\ \A k \in Client \ previous : now[k] = clients[k]
      /\ \A k \in previous : ~now[k].open
  BY <1>0, <1>3, McpClientTypes DEF Disconnected, Clients
<1>5. /\ reg \in Registry
      /\ \A s \in Server : registry[s] \notin previous => reg[s] = registry[s]
      /\ \A s \in Server : reg[s] \notin previous
      /\ \A s \in Server : reg[s] # NoClient => reg[s] = registry[s]
  BY <1>0, <1>3, McpAssumption DEF Registry, McpAssumption
<1>6. \A k \in previous : clients[k].open /\ registry[clients[k].server] = k
  BY <1>0 DEF Lists, Serves, ToSet
<1>7. \A v \in Loader : Busy(v) =>
        loaders[v].client \notin previous
  BY <1>0, <1>3, <1>6 DEF Starting, Clients, McpClient
<1>8. \A v \in Loader : Busy(v) => ToSet(loaders[v].loaded) \cap previous = {}
  BY <1>0 DEF Lists, Apart, ToSet
<1>9. servers \in Seq(Server)
  BY McpAssumption DEF McpAssumption
<1> HIDE DEF previous, now, reg, w
<1>10. Starting(now, reg, loaders, W)
  BY <1>0, <1>4, <1>5, <1>7, McpAssumption DEF Starting, Busy, McpAssumption
<1>11. Traced(now, reg, loaders, W)
  <2> SUFFICES ASSUME NEW c \in Client, now[c].open
               PROVE  \/ \E s \in Server : reg[s] = c
                      \/ \E v \in W : loaders[v] # Idle /\ loaders[v].client = c
    BY DEF Traced
  <2>1. c \notin previous /\ clients[c].open
    BY <1>4
  <2>2. \/ \E s \in Server : registry[s] = c
        \/ \E v \in Loader : loaders[v] # Idle /\ loaders[v].client = c
    BY <1>0, <2>1 DEF Traced
  <2> QED BY <1>1, <1>5, <2>1, <2>2
<1>12. Registered(now, reg)
  BY <1>0, <1>4, <1>5 DEF Registered, Registry
<1>13. ASSUME NEW v \in Loader, Busy(v)
       PROVE  Serves(now, reg, loaders[v].loaded)
  <2>1. Serves(clients, registry, loaders[v].loaded) /\ loaders[v].loaded \in Seq(Client)
    BY <1>0, <1>13 DEF Lists
  <2> SUFFICES ASSUME NEW i \in DOMAIN loaders[v].loaded
               PROVE  LET c == loaders[v].loaded[i]
                      IN  now[c].open /\ reg[now[c].server] = c
    BY <2>1 DEF Serves
  <2>2. loaders[v].loaded[i] \in Client \ previous
    BY <1>8, <1>13, <2>1 DEF ToSet
  <2>3. clients[loaders[v].loaded[i]].server \in Server
    BY <1>0, <2>2 DEF Clients, McpClient
  <2> QED BY <1>4, <1>5, <2>1, <2>2, <2>3 DEF Serves
<1>14. Lists(now, reg, <<>>, loaders, W, <<>>)
  BY <1>0, <1>13, EmptyList DEF Lists, Busy
<1>15. ActiveFor(w) = <<>>
  BY <1>1 DEF ActiveFor
<1>16. Sound(now, reg, ActiveFor(w), loaders, W, <<>>)
  BY <1>10, <1>11, <1>12, <1>14, <1>15 DEF Sound
<1>17. /\ clients' \in Clients /\ activeMcp' \in Seq(Client) /\ loaders' \in Loads
       /\ pending' \subseteq McpRequest /\ unsettled' \subseteq McpRequest
       /\ Sound(clients', reg, activeMcp', loaders', Loader, <<>>)
       /\ \A v \in Loader \ {w} : loaders'[v] = loaders[v]
       /\ \/ loaders'[w] = Idle /\ activeMcp' = <<>>
          \/ /\ loaders'[w] # Idle /\ loaders'[w].loaded = <<>>
             /\ activeMcp' = ActiveFor(w)
  BY <1>0, <1>1, <1>2, <1>4, <1>5, <1>9, <1>16, EmptyList, LoaderGoesOn
<1>18. ~overlapped' =>
         /\ \A v \in Loader \ {w} : Busy(v) => loaders[v].kind # "reload"
         /\ Busy(w) => activeMcp = <<>>
         /\ \A s \in Server : registry'[s] # NoClient => registry'[s] \in ToSet(<<>>)
  <2> SUFFICES ASSUME ~overlapped'
               PROVE  /\ \A v \in Loader \ {w} : Busy(v) => loaders[v].kind # "reload"
                      /\ \A s \in Server : reg[s] = NoClient
    BY <1>1, <1>2
  <2>1. ~overlapped /\ \A v \in Loader : Busy(v) => loaders[v].kind # "reload"
    BY <1>2
  <2>2. \A v \in Loader : Busy(v) => loaders[v].loaded = <<>>
    BY <1>0, <2>1 DEF Lists, Load
  <2>3. \A s \in Server : registry[s] # NoClient => registry[s] \in previous
    BY <1>0, <2>1, <2>2, EmptyList DEF Undisturbed, previous
  <2> QED BY <1>5, <2>1, <2>3
<1>19. Sound(clients, registry, activeMcp, loaders, Loader, <<>>)'
  BY <1>2, <1>17
<1>20. Undisturbed'
  BY <1>0, <1>1, <1>17, <1>18, <1>19, EmptyList, GoesOnUndisturbed DEF Sound
<1>21. McpTyped'
  BY <1>0, <1>2, <1>5, <1>17 DEF McpTyped
<1> QED BY <1>19, <1>20, <1>21 DEF McpInv

(* A test has a client of its own and takes nothing away.                  *)
LEMMA Tests ==
  ASSUME McpInv, NEW s \in Server, Test(s)
  PROVE  McpInv'
<1> DEFINE c == New(clients)
           w == CHOOSE v \in IdleLoaders : TRUE
           load == [kind |-> "test", client |-> c, todo |-> <<>>, loaded |-> <<>>]
           W == Loader \ {w}
<1>0. /\ McpTyped /\ Undisturbed
      /\ clients \in Clients /\ registry \in Registry /\ activeMcp \in Seq(Client)
      /\ loaders \in Loads /\ overlapped \in BOOLEAN
      /\ Starting(clients, registry, loaders, Loader)
      /\ Traced(clients, registry, loaders, Loader)
      /\ Registered(clients, registry)
      /\ Lists(clients, registry, activeMcp, loaders, Loader, <<>>)
      /\ \A v \in Loader : Busy(v) =>
           /\ loaders[v] # Idle /\ loaders[v] \in Load
           /\ loaders[v].client \in Client /\ loaders[v].todo \in Seq(Server)
           /\ loaders[v].loaded \in Seq(Client)
  BY Parts
<1>1. w \in Loader /\ ~Busy(w) /\ loaders[w] = Idle
  BY DEF Test, IdleLoaders, Busy
<1>2. Traced(clients, registry, loaders, W)
  BY <1>0, <1>1 DEF Traced
<1>3. c \in Client /\ ~clients[c].open
  BY <1>0, <1>1, <1>2, NewClient
<1>4. /\ clients' = [clients EXCEPT ![c] = Opened(s)]
      /\ Requests({}, {<<c, "initialize">>})
      /\ loaders' = [loaders EXCEPT ![w] = load]
      /\ registry' = registry /\ activeMcp' = activeMcp /\ overlapped' = overlapped
  BY DEF Test
<1>5. load \in Load /\ load # Idle /\ load.client = c /\ load.loaded = <<>>
      /\ load.kind = "test" /\ load.todo = <<>>
  BY <1>3, EmptyList DEF Load, Idle
<1> HIDE DEF c, w, load
<1>6. /\ clients' \in Clients /\ clients'[c].open
      /\ \A k \in Client \ {c} : clients'[k] = clients[k]
  BY <1>0, <1>3, <1>4, McpClientTypes DEF Clients
<1>7. /\ loaders' \in Loads /\ loaders'[w] = load
      /\ \A v \in W : loaders'[v] = loaders[v]
  BY <1>0, <1>1, <1>4, <1>5 DEF Loads
<1>8. pending' \subseteq McpRequest /\ unsettled' \subseteq McpRequest
  BY <1>0, <1>3, <1>4, RequestsTyped DEF McpRequest, Method
<1>9. \A t \in Server : registry[t] # c
  BY <1>0, <1>3, McpAssumption DEF Registered, McpAssumption, Registry
<1>10. Starting(clients', registry, loaders', Loader)
  BY <1>0, <1>1, <1>3, <1>5, <1>6, <1>7, <1>9 DEF Starting, Busy
<1>11. Traced(clients', registry, loaders', Loader)
  BY <1>1, <1>2, <1>5, <1>6, <1>7 DEF Traced
<1>12. Registered(clients', registry)
  BY <1>0, <1>6, <1>9, McpAssumption DEF Registered, Registry, McpAssumption
<1>13. ASSUME NEW list \in Seq(Client), Serves(clients, registry, list)
       PROVE  Serves(clients', registry, list)
  BY <1>3, <1>6, <1>13 DEF Serves
<1>14. Lists(clients', registry, activeMcp, loaders', Loader, <<>>)
  <2>1. Serves(clients', registry, activeMcp) /\ Serves(clients', registry, <<>>)
        /\ Apart(activeMcp, <<>>)
    BY <1>0, <1>13, EmptyList DEF Lists
  <2>2. ASSUME NEW v \in Loader, loaders'[v] # Idle
        PROVE  /\ Serves(clients', registry, loaders'[v].loaded)
               /\ Apart(activeMcp, loaders'[v].loaded) /\ Apart(<<>>, loaders'[v].loaded)
               /\ \A u \in Loader : loaders'[u] # Idle /\ u # v =>
                    Apart(loaders'[u].loaded, loaders'[v].loaded)
               /\ loaders'[v].kind = "test" =>
                    loaders'[v].todo = <<>> /\ loaders'[v].loaded = <<>>
    <3>1. CASE v = w
      BY <3>1, <1>5, <1>7, EmptyList
    <3>2. CASE v # w
      BY <3>2, <2>2, <1>0, <1>5, <1>7, <1>13, EmptyList DEF Lists, Busy
    <3> QED BY <3>1, <3>2
  <2> QED BY <2>1, <2>2 DEF Lists
<1>15. Sound(clients, registry, activeMcp, loaders, Loader, <<>>)'
  BY <1>4, <1>10, <1>11, <1>12, <1>14 DEF Sound
<1>16. Undisturbed'
  <2>1. \A v \in Loader : Busy(v)' /\ loaders'[v].kind = "reload" =>
          Busy(v) /\ loaders'[v] = loaders[v]
    BY <1>5, <1>7 DEF Busy
  <2>2. \A v \in Loader : Busy(v) => Busy(v)' /\ loaders'[v] = loaders[v]
    BY <1>1, <1>7 DEF Busy
  <2> QED BY <1>0, <1>4, <2>1, <2>2 DEF Undisturbed
<1>17. McpTyped'
  BY <1>0, <1>4, <1>6, <1>7, <1>8 DEF McpTyped
<1> QED BY <1>15, <1>16, <1>17 DEF McpInv

(* The client that was started is registered and goes on the list.         *)
LEMMA Registers ==
  ASSUME McpInv, NEW w \in Loader, Listed(w), loaders[w].kind = "reload",
         registry[clients[loaders[w].client].server] = NoClient
  PROVE  McpInv'
<1> DEFINE c == loaders[w].client
           s == clients[c].server
           reg == [registry EXCEPT ![s] = c]
           loaded == Append(loaders[w].loaded, c)
           W == Loader \ {w}
<1>0. /\ McpTyped /\ Undisturbed
      /\ clients \in Clients /\ registry \in Registry /\ activeMcp \in Seq(Client)
      /\ loaders \in Loads /\ overlapped \in BOOLEAN
      /\ Starting(clients, registry, loaders, Loader)
      /\ Traced(clients, registry, loaders, Loader)
      /\ Registered(clients, registry)
      /\ Lists(clients, registry, activeMcp, loaders, Loader, <<>>)
      /\ \A v \in Loader : Busy(v) =>
           /\ loaders[v] # Idle /\ loaders[v] \in Load
           /\ loaders[v].client \in Client /\ loaders[v].todo \in Seq(Server)
           /\ loaders[v].loaded \in Seq(Client)
  BY Parts
<1>1. Busy(w) /\ loaders[w] # Idle
  BY DEF Listed, Busy
<1>2. /\ c \in Client /\ s \in Server /\ loaded \in Seq(Client)
      /\ loaders[w].loaded \in Seq(Client) /\ loaders[w].todo \in Seq(Server)
  BY <1>0, <1>1 DEF Clients, McpClient
<1>3. /\ registry' = reg /\ overlapped' = overlapped
      /\ LoadNext(w, loaders[w].todo, loaded, clients, RequestsOf({c}))
  BY DEF Listed
<1>4. clients[c].open /\ \A t \in Server : registry[t] # c
  BY <1>0, <1>1 DEF Starting
<1>5. /\ \A v \in W : loaders[v] # Idle => loaders[v].client # c
  BY <1>0, <1>1 DEF Starting
<1>6. /\ reg \in Registry /\ reg[s] = c
      /\ \A t \in Server \ {s} : reg[t] = registry[t]
  BY <1>0, <1>2 DEF Registry
<1>7. /\ \A i \in DOMAIN loaders[w].loaded : loaded[i] = loaders[w].loaded[i]
      /\ loaded[Len(loaded)] = c
      /\ \A i \in DOMAIN loaded : i = Len(loaded) \/ i \in DOMAIN loaders[w].loaded
  BY <1>2
<1>8. registry[s] = NoClient /\ NoClient \notin Client
  BY McpAssumption DEF McpAssumption
<1> HIDE DEF c, s, reg, loaded
<1>9. Starting(clients, reg, loaders, W)
  BY <1>0, <1>5, <1>6 DEF Starting
<1>10. Traced(clients, reg, loaders, W)
  BY <1>0, <1>2, <1>6, <1>8 DEF Traced, c
<1>11. Registered(clients, reg)
  BY <1>0, <1>2, <1>4, <1>6 DEF Registered
<1>12. ASSUME NEW list \in Seq(Client), Serves(clients, registry, list)
       PROVE  /\ Serves(clients, reg, list)
              /\ \A i \in DOMAIN list : list[i] # c
  <2> SUFFICES ASSUME NEW i \in DOMAIN list
               PROVE  /\ clients[list[i]].open /\ reg[clients[list[i]].server] = list[i]
                      /\ list[i] # c
    BY <1>12 DEF Serves
  <2>1. list[i] \in Client /\ clients[list[i]].server \in Server
    BY <1>0 DEF Clients, McpClient
  <2>2. clients[list[i]].open /\ registry[clients[list[i]].server] = list[i]
    BY <1>12 DEF Serves
  <2> QED BY <1>4, <1>6, <1>8, <2>1, <2>2
<1>13. Serves(clients, registry, activeMcp)
       /\ \A v \in Loader : loaders[v] # Idle => Serves(clients, registry, loaders[v].loaded)
  BY <1>0 DEF Lists
<1>14. Serves(clients, reg, loaded)
  <2>1. ASSUME NEW i \in DOMAIN loaded
        PROVE  clients[loaded[i]].open /\ reg[clients[loaded[i]].server] = loaded[i]
    <3>1. CASE i = Len(loaded)
      BY <1>4, <1>6, <1>7, <3>1 DEF s
    <3>2. CASE i \in DOMAIN loaders[w].loaded
      <4>1. Serves(clients, reg, loaders[w].loaded)
        BY <1>1, <1>2, <1>12, <1>13
      <4> QED BY <1>7, <3>2, <4>1 DEF Serves
    <3> QED BY <1>7, <3>1, <3>2
  <2>2. ASSUME NEW i \in DOMAIN loaded, NEW j \in DOMAIN loaded, loaded[i] = loaded[j]
        PROVE  i = j
    <3>1. \A k \in DOMAIN loaders[w].loaded : loaders[w].loaded[k] # c
      BY <1>1, <1>2, <1>12, <1>13
    <3>2. IsInjective(loaders[w].loaded)
      BY <1>1, <1>13 DEF Serves
    <3> QED BY <1>7, <2>2, <3>1, <3>2 DEF IsInjective
  <2> QED BY <2>1, <2>2 DEF Serves, IsInjective
<1>15. ASSUME NEW list \in Seq(Client), Serves(clients, registry, list),
              Apart(list, loaders[w].loaded)
       PROVE  Apart(list, loaded) /\ Apart(loaded, list)
  BY <1>7, <1>12, <1>15 DEF Apart
<1>16. Lists(clients, reg, activeMcp, loaders, W, loaded)
  <2>1. Serves(clients, reg, activeMcp) /\ Apart(activeMcp, loaded)
    BY <1>0, <1>1, <1>12, <1>13, <1>15 DEF Lists
  <2>2. ASSUME NEW v \in W, loaders[v] # Idle
        PROVE  Serves(clients, reg, loaders[v].loaded) /\ Apart(loaded, loaders[v].loaded)
    <3>1. loaders[v].loaded \in Seq(Client) /\ Serves(clients, registry, loaders[v].loaded)
      BY <1>0, <1>13, <2>2 DEF Busy
    <3>2. Apart(loaders[v].loaded, loaders[w].loaded)
      BY <1>0, <1>1, <2>2 DEF Lists
    <3> QED BY <1>12, <1>15, <3>1, <3>2
  <2> QED BY <1>0, <1>14, <2>1, <2>2 DEF Lists
<1>17. ActiveFor(w) = activeMcp
  BY <1>1 DEF ActiveFor
<1>18. Sound(clients, reg, ActiveFor(w), loaders, W, loaded)
  BY <1>9, <1>10, <1>11, <1>16, <1>17 DEF Sound
<1>19. /\ clients' \in Clients /\ activeMcp' \in Seq(Client) /\ loaders' \in Loads
       /\ pending' \subseteq McpRequest /\ unsettled' \subseteq McpRequest
       /\ Sound(clients', reg, activeMcp', loaders', Loader, <<>>)
       /\ \A v \in Loader \ {w} : loaders'[v] = loaders[v]
       /\ \/ loaders'[w] = Idle /\ activeMcp' = loaded
          \/ /\ loaders'[w] # Idle /\ loaders'[w].loaded = loaded
             /\ activeMcp' = ActiveFor(w)
  BY <1>0, <1>2, <1>3, <1>6, <1>18, LoaderGoesOn
<1>20. ~overlapped' =>
         /\ \A v \in Loader \ {w} : Busy(v) => loaders[v].kind # "reload"
         /\ Busy(w) => activeMcp = <<>>
         /\ \A t \in Server : registry'[t] # NoClient => registry'[t] \in ToSet(loaded)
  <2> SUFFICES ASSUME ~overlapped
               PROVE  /\ \A v \in Loader \ {w} : Busy(v) => loaders[v].kind # "reload"
                      /\ activeMcp = <<>>
                      /\ \A t \in Server : reg[t] # NoClient => reg[t] \in ToSet(loaded)
    BY <1>3
  <2>1. /\ \A v \in Loader \ {w} : Busy(v) => loaders[v].kind # "reload"
        /\ activeMcp = <<>>
    BY <1>0, <1>1 DEF Undisturbed
  <2>2. \A v \in Loader \ {w} : Busy(v) => loaders[v].loaded = <<>>
    BY <1>0, <2>1 DEF Lists, Busy, Load
  <2>3. ToSet(loaders[w].loaded) \subseteq ToSet(loaded) /\ c \in ToSet(loaded)
    <3>1. DOMAIN loaders[w].loaded \subseteq DOMAIN loaded /\ Len(loaded) \in DOMAIN loaded
      BY <1>2 DEF loaded
    <3> QED BY <1>7, <3>1 DEF ToSet
  <2>4. ASSUME NEW t \in Server \ {s}, reg[t] # NoClient
        PROVE  reg[t] \in ToSet(loaders[w].loaded)
    BY <1>0, <1>6, <2>1, <2>2, <2>4, EmptyList DEF Undisturbed
  <2> QED BY <1>6, <2>1, <2>3, <2>4
<1>21. Sound(clients, registry, activeMcp, loaders, Loader, <<>>)'
  BY <1>3, <1>19
<1>22. Undisturbed'
  BY <1>0, <1>2, <1>19, <1>20, <1>21, GoesOnUndisturbed DEF Sound
<1>23. McpTyped'
  BY <1>0, <1>3, <1>6, <1>19 DEF McpTyped
<1> QED BY <1>21, <1>22, <1>23 DEF McpInv

(* A server that ends keeps its client open.                               *)
LEMMA Exits ==
  ASSUME McpInv, NEW c \in Client, ServerExits(c)
  PROVE  McpInv'
<1> DEFINE now == [clients EXCEPT ![c].runs = FALSE]
<1>0. /\ McpTyped /\ Undisturbed
      /\ clients \in Clients /\ registry \in Registry /\ activeMcp \in Seq(Client)
      /\ loaders \in Loads /\ overlapped \in BOOLEAN
      /\ Starting(clients, registry, loaders, Loader)
      /\ Traced(clients, registry, loaders, Loader)
      /\ Registered(clients, registry)
      /\ Lists(clients, registry, activeMcp, loaders, Loader, <<>>)
      /\ \A v \in Loader : Busy(v) =>
           /\ loaders[v] # Idle /\ loaders[v] \in Load
           /\ loaders[v].client \in Client /\ loaders[v].todo \in Seq(Server)
           /\ loaders[v].loaded \in Seq(Client)
  BY Parts
<1>1. /\ now \in Clients
      /\ \A k \in Client : now[k].open = clients[k].open /\ now[k].server = clients[k].server
  BY <1>0 DEF Clients, McpClient
<1>2. registry' = registry /\ overlapped' = overlapped
  BY DEF ServerExits
<1>3. CASE \E w \in Loader : Busy(w) /\ loaders[w].client = c /\ Abandon(w, now)
  BY <1>1, <1>2, <1>3, Abandons
<1>4. CASE /\ clients' = now /\ Requests(RequestsOf({c}), {})
           /\ activeMcp' = activeMcp /\ loaders' = loaders
  <2> HIDE DEF now
  <2>1. pending' \subseteq McpRequest /\ unsettled' \subseteq McpRequest
    BY <1>0, <1>4, RequestsTyped
  <2>2. McpTyped'
    BY <1>0, <1>1, <1>2, <1>4, <2>1 DEF McpTyped
  <2>3. Starting(now, registry, loaders, Loader)
    BY <1>0, <1>1 DEF Starting, Busy
  <2>4. Traced(now, registry, loaders, Loader)
    BY <1>0, <1>1 DEF Traced
  <2>5. Registered(now, registry)
    BY <1>0, <1>1, McpAssumption DEF Registered, Registry, McpAssumption
  <2>6. \A list \in Seq(Client) :
          Serves(clients, registry, list) => Serves(now, registry, list)
    BY <1>1 DEF Serves
  <2>7. Lists(now, registry, activeMcp, loaders, Loader, <<>>)
    BY <1>0, <2>6, EmptyList DEF Lists, Busy
  <2>8. Sound(clients, registry, activeMcp, loaders, Loader, <<>>)'
    BY <1>2, <1>4, <2>3, <2>4, <2>5, <2>7 DEF Sound
  <2>9. Undisturbed'
    BY <1>0, <1>2, <1>4 DEF Undisturbed, Busy
  <2> QED BY <2>2, <2>8, <2>9 DEF McpInv
<1> QED BY <1>3, <1>4 DEF ServerExits

-----------------------------------------------------------------------------
(* The theorems.                                                           *)

(* Nothing is open, registered or loading at first.                        *)
LEMMA McpStart ==
  ASSUME McpInit
  PROVE  McpInv
<1> USE DEF McpInit
<1>1. /\ clients \in Clients /\ registry \in Registry /\ loaders \in Loads
      /\ \A c \in Client : ~clients[c].open
      /\ \A w \in Loader : loaders[w] = Idle
  BY McpClientTypes DEF Clients, Registry, Loads
<1>2. McpTyped
  BY <1>1, EmptyList DEF McpTyped
<1>3. Sound(clients, registry, activeMcp, loaders, Loader, <<>>)
  BY <1>1, EmptyList DEF Sound, Starting, Traced, Registered, Lists
<1>4. Undisturbed
  BY <1>1 DEF Undisturbed, Busy
<1> QED BY <1>2, <1>3, <1>4 DEF McpInv

(* Every step keeps the invariant.                                         *)
LEMMA McpStep ==
  ASSUME McpInv, [McpNext]_mcpVars
  PROVE  McpInv'
<1>0. /\ McpTyped /\ clients \in Clients /\ registry \in Registry /\ loaders \in Loads
      /\ \A w \in Loader : Busy(w) => loaders[w] \in Load /\ loaders[w].client \in Client
  BY Parts
<1>1. ASSUME NEW servers \in Configs, ReloadServers(servers)
      PROVE  McpInv'
  BY <1>1, Reloads
<1>2. ASSUME NEW s \in Server, Test(s)
      PROVE  McpInv'
  BY <1>2, Tests
<1>3. ASSUME NEW s \in Server, CallTool(s)
      PROVE  McpInv'
  <2>1. registry[s] \in Client
    BY <1>0, <1>3 DEF CallTool, Registry
  <2>2. {<<registry[s], "tools/call">>} \subseteq McpRequest
    BY <2>1 DEF McpRequest, Method
  <2>3. /\ Requests({}, {<<registry[s], "tools/call">>})
        /\ UNCHANGED <<clients, registry, activeMcp, loaders, overlapped>>
    BY <1>3 DEF CallTool
  <2> QED BY <2>2, <2>3, OnlyRequests
<1>4. ASSUME NEW w \in Loader, Initialized(w)
      PROVE  McpInv'
  <2>1. {<<loaders[w].client, "tools/list">>} \subseteq McpRequest
    BY <1>0, <1>4 DEF Initialized, McpRequest, Method
  <2>2. /\ Requests({<<loaders[w].client, "initialize">>}, {<<loaders[w].client, "tools/list">>})
        /\ UNCHANGED <<clients, registry, activeMcp, loaders, overlapped>>
    BY <1>4 DEF Initialized
  <2> QED BY <2>1, <2>2, OnlyRequests
<1>5. ASSUME NEW w \in Loader, Listed(w)
      PROVE  McpInv'
  <2>1. CASE /\ loaders[w].kind = "reload"
             /\ registry[clients[loaders[w].client].server] = NoClient
    BY <1>5, <2>1, Registers
  <2>2. CASE ~(/\ loaders[w].kind = "reload"
               /\ registry[clients[loaders[w].client].server] = NoClient)
    <3>1. Busy(w) /\ Abandon(w, clients) /\ UNCHANGED <<registry, overlapped>>
      BY <1>5, <2>2 DEF Listed
    <3> QED BY <1>0, <3>1, Abandons
  <2> QED BY <2>1, <2>2
<1>6. ASSUME NEW w \in Loader, LoadFails(w)
      PROVE  McpInv'
  <2>1. Busy(w) /\ Abandon(w, clients) /\ UNCHANGED <<registry, overlapped>>
    BY <1>6 DEF LoadFails
  <2> QED BY <1>0, <2>1, Abandons
<1>7. ASSUME NEW c \in Client, CallAnswered(c) \/ CallTimesOut(c)
      PROVE  McpInv'
  <2>1. /\ Requests({<<c, "tools/call">>}, {})
        /\ UNCHANGED <<clients, registry, activeMcp, loaders, overlapped>>
    BY <1>7 DEF CallAnswered, CallTimesOut
  <2> QED BY <2>1, OnlyRequests
<1>8. ASSUME NEW c \in Client, ServerExits(c)
      PROVE  McpInv'
  BY <1>8, Exits
<1>9. CASE UNCHANGED mcpVars
  <2>1. Requests({}, {}) /\ UNCHANGED <<clients, registry, activeMcp, loaders, overlapped>>
    BY <1>9 DEF mcpVars, Requests
  <2> QED BY <2>1, OnlyRequests
<1> QED BY <1>1, <1>2, <1>3, <1>4, <1>5, <1>6, <1>7, <1>8, <1>9 DEF McpNext

(* The invariant always holds.                                             *)
LEMMA McpAlways == McpSpec => []McpInv
<1>1. McpInit => McpInv
  BY McpStart
<1>2. McpInv /\ [McpNext]_mcpVars => McpInv'
  BY McpStep
<1> QED BY <1>1, <1>2, PTL DEF McpSpec

(* The types of the clients, their requests, the tools and the loaders: a  *)
(* new client can always be had, a tool has a client or none, and no       *)
(* client is twice in `active` (McpRuntimeManager, McpClient).             *)
THEOREM McpTyping == McpSpec => []McpTypeOK
<1>1. McpInv => McpTypeOK
  <2> SUFFICES ASSUME McpInv PROVE McpTypeOK
    OBVIOUS
  <2>1. /\ McpTyped /\ clients \in Clients /\ registry \in Registry
        /\ activeMcp \in Seq(Client) /\ loaders \in Loads
        /\ Lists(clients, registry, activeMcp, loaders, Loader, <<>>)
    BY Parts
  <2>2. ToSet(activeMcp) \subseteq Client /\ IsInjective(activeMcp)
    BY <2>1 DEF ToSet, Lists, Serves
  <2>3. ASSUME NEW w \in Loader, loaders[w] # Idle
        PROVE  /\ loaders[w].kind \in {"reload", "test"} /\ loaders[w].client \in Client
               /\ ToSet(loaders[w].todo) \subseteq Server
               /\ ToSet(loaders[w].loaded) \subseteq Client
    <3>1. loaders[w] \in Load
      BY <2>1, <2>3 DEF Loads
    <3> QED BY <3>1 DEF Load, ToSet
  <2> QED BY <2>1, <2>2, <2>3 DEF McpTypeOK, McpTyped, Clients, McpClient, Registry
<1> QED BY <1>1, McpAlways, PTL

(* Reloads that do not overlap lose no client: each that is open is in     *)
(* `active` or in the hands of a loader, and what was loaded is open and   *)
(* registered, however tests, failures, calls and the ends of servers come *)
(* in between (reload, loadMcpServers, loadServer).                        *)
THEOREM NoLostClient == McpSpec => []NoClientIsLost
<1>1. McpInv => NoClientIsLost
  <2> SUFFICES ASSUME McpInv, ~overlapped
               PROVE  /\ \A c \in Client : clients[c].open => InHand(c)
                      /\ \A c \in Loaded : clients[c].open
                                           /\ registry[clients[c].server] = c
    BY DEF NoClientIsLost
  <2>1. /\ Undisturbed /\ Traced(clients, registry, loaders, Loader)
        /\ Lists(clients, registry, activeMcp, loaders, Loader, <<>>)
    BY Parts
  <2>2. ASSUME NEW c \in Client, clients[c].open
        PROVE  InHand(c)
    <3>1. CASE \E w \in Loader : loaders[w] # Idle /\ loaders[w].client = c
      BY <3>1 DEF InHand, Busy
    <3>2. CASE \E s \in Server : registry[s] = c
      BY <2>1, <3>2, McpAssumption DEF Undisturbed, InHand, McpAssumption
    <3> QED BY <2>1, <2>2, <3>1, <3>2 DEF Traced
  <2>3. ASSUME NEW c \in Loaded
        PROVE  clients[c].open /\ registry[clients[c].server] = c
    BY <2>1 DEF Loaded, Lists, Serves, ToSet, Busy
  <2> QED BY <2>2, <2>3
<1> QED BY <1>1, McpAlways, PTL

-----------------------------------------------------------------------------
(* The services together: each goes through what its own module allows, so *)
(* that everything proved of a service holds of them all.                  *)

(* A behaviour of the services is one of every service.                    *)
LEMMA ServicesCompose == FairSpec => AutomationSpec /\ DeliverySpec /\ McpSpec
<1>1. Init => AutomationInit /\ DeliveryInit /\ McpInit
  BY DEF Init
<1>2. [Next]_vars => [AutomationNext]_autoVars
  BY DEF Next, vars
<1>3. [Next]_vars => [DeliveryNext]_deliveryVars
  BY DEF Next, vars
<1>4. [Next]_vars => [McpNext]_mcpVars
  BY DEF Next, vars
<1>5. FairSpec => Init /\ [][Next]_vars
  BY DEF FairSpec
<1> QED
  BY <1>1, <1>2, <1>3, <1>4, <1>5, PTL DEF AutomationSpec, DeliverySpec, McpSpec

(* Every variable of the automation, the deliveries and the MCP runtime    *)
(* stays in its type (automation.ts, channels.ts, mcp.ts).                 *)
THEOREM ServicesTyping == FairSpec => []TypeOK
<1>1. AutomationTypeOK /\ DeliveryTypeOK /\ McpTypeOK => TypeOK
  BY DEF TypeOK
<1> QED
  BY <1>1, ServicesCompose, AutomationTyping, DeliveryTyping, McpTyping, PTL
=============================================================================
