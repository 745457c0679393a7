------------------------- MODULE ApplicationProofs -------------------------
(***************************************************************************)
(* Proofs about Application.tla, for any configuration file, any command   *)
(* line and any conversation: who may ask and which keys may travel, that  *)
(* the routes are what the file says, that the routes and the answers have *)
(* their types, that a valid conversation can be said to each provider,    *)
(* and that an answer may be said back.  The loops of the code are folds   *)
(* here, and what holds of them is carried from one element to the next by *)
(* the theorems of FoldProofs; the trees are those of ReaderProofs.        *)
(***************************************************************************)
EXTENDS Application, ReaderProofs, FiniteSetTheorems

----------------------------------------------------------------------------
(***************************************************************************)
(* The inductive invariant.  The flag of the command line is looked at     *)
(* three times, with the address, with the master key, and when the        *)
(* application is made; what each look found stays true, as nothing        *)
(* changes the arguments.                                                  *)
(***************************************************************************)
Ruled == stage \notin {"arguments", "exited"} => Rules

Keyed ==
  stage \in {"built", "serving"} => cli.no_auth \/ config.general_settings.master_key

Gated ==
  /\ step # "closed" => stage = "serving" /\ (gate = "key" \/ cli.no_auth)
  /\ step \in {"routing", "sent"} => gate # "key" \/ chat.authorized

GuardInv == Ruled /\ Keyed /\ Gated

LEMMA InitGuardInv == Init => GuardInv
  BY DEF Init, StartInit, ChatInit, GuardInv, Ruled, Keyed, Gated

\* A configuration without a master key builds only with authentication off.
LEMMA BuildsKeyed ==
  ASSUME NEW tree, NEW noAuth, ValidSettings(tree, noAuth)
  PROVE  noAuth \/ Settings(tree).master_key
  BY DEF ValidSettings, Settings

\* Nothing on the way to serving takes the guard away.
LEMMA StartKeeps == ASSUME GuardInv, StartNext, UNCHANGED chatVars PROVE GuardInv'
  <1> USE DEF GuardInv, Ruled, Keyed, Gated, Rules, chatVars, Goto
  <1>1. ASSUME NEW with, Exit(with), stage # "serving" PROVE GuardInv'
    BY <1>1 DEF Exit
  <1>2. CASE ParseArguments
    BY <1>2 DEF ParseArguments
  <1>3. CASE RefuseArguments
    BY <1>1, <1>3 DEF RefuseArguments
  <1>4. CASE ReadFile
    BY <1>4 DEF ReadFile
  <1>5. CASE Parse
    BY <1>5 DEF Parse
  <1>6. CASE Deserialize
    BY <1>6 DEF Deserialize
  <1>7. CASE Build
    <2>1. cli.no_auth \/ Settings(root).master_key
      BY <1>7, BuildsKeyed DEF Build, Builds
    <2>2. /\ stage = "deserialize" /\ stage' = "built" /\ cli' = cli
          /\ config'.general_settings.master_key = Settings(root).master_key
      BY <1>7 DEF Build, RuntimeConfig
    <2> QED BY <2>1, <2>2
  <1>8. CASE ReadFileFails \/ ParseFails \/ DeserializeFails \/ BuildFails \/ Validate \/ ServeFails
    BY <1>1, <1>8 DEF ReadFileFails, ParseFails, DeserializeFails, BuildFails, Validate, ServeFails
  <1> QED BY <1>2, <1>3, <1>4, <1>5, <1>6, <1>7, <1>8 DEF StartNext

\* The service opens with the gate that the command line and the file want.
LEMMA ServeKeeps ==
  ASSUME GuardInv, Serve, Opens(config.routes, cli.no_auth) PROVE GuardInv'
  <1>1. /\ stage = "built" /\ stage' = "serving" /\ cli' = cli
        /\ config'.general_settings.master_key = config.general_settings.master_key
    BY DEF Serve, NoConfig
  <1>2. step' = "idle" /\ (gate' = "key" \/ cli.no_auth)
    BY DEF Opens
  <1> QED BY <1>1, <1>2 DEF GuardInv, Ruled, Keyed, Gated, Rules

\* No request gets past the gate without the key.
LEMMA ChatKeeps == ASSUME GuardInv, ChatNext, UNCHANGED startVars PROVE GuardInv'
  <1>1. UNCHANGED <<stage, cli, config>>
    BY DEF startVars
  <1>2. Ruled' /\ Keyed'
    BY <1>1 DEF GuardInv, Ruled, Keyed, Rules
  <1>3. Gated'
    <2> USE <1>1 DEF GuardInv, Gated
    <2>1. CASE Ask \/ Continue \/ Restart
      BY <2>1 DEF Ask, Continue, Restart
    <2>2. CASE Reject
      BY <2>2 DEF Reject, Answer
    <2>3. CASE Accept
      <3>1. ~(gate = "key" /\ ~chat.authorized)
        <4>1. gate = "key" /\ ~chat.authorized => Status = 401
          BY DEF Status
        <4>2. Status = 200
          BY <2>3 DEF Accept
        <4> QED BY <4>1, <4>2
      <3> QED BY <2>3, <3>1 DEF Accept
    <2>4. CASE Send
      BY <2>4 DEF Send
    <2>5. ASSUME step = "sent", NextTarget PROVE Gated'
      BY <2>5 DEF NextTarget, Answer
    <2>6. CASE AttemptFails
      BY <2>5, <2>6 DEF AttemptFails
    <2>7. CASE ProviderAnswers
      <3>1. PICK body \in Bodies :
              LET done == Completed(Route[attempt], ToolChoice(chat), body, nextId)
              IN IF done.good
                 THEN Answer([status |-> 200, content |-> done.content, calls |-> done.calls])
                 ELSE NextTarget
        BY <2>7 DEF ProviderAnswers
      <3>2. step = "sent"
        BY <2>7 DEF ProviderAnswers
      <3>3. (\E with : Answer(with)) \/ NextTarget
        BY <3>1
      <3>4. CASE \E with : Answer(with)
        BY <3>2, <3>4 DEF Answer
      <3> QED BY <2>5, <3>2, <3>3, <3>4
    <2> QED BY <2>1, <2>2, <2>3, <2>4, <2>6, <2>7 DEF ChatNext
  <1> QED BY <1>2, <1>3 DEF GuardInv

----------------------------------------------------------------------------
(***************************************************************************)
(* No service is open by mistake, whatever the file says: without a key it *)
(* is reachable from the machine itself only, and a request without the    *)
(* key costs an attempt only there.                                        *)
(***************************************************************************)
THEOREM ServiceIsGuarded == Spec => []ServiceGuarded
  <1>1. GuardInv /\ [Next]_vars => GuardInv'
    <2>1. ASSUME GuardInv, UNCHANGED vars PROVE GuardInv'
      BY <2>1 DEF vars, startVars, chatVars, GuardInv, Ruled, Keyed, Gated, Rules
    <2> QED BY <2>1, StartKeeps, ServeKeeps, ChatKeeps DEF Next
  <1>2. GuardInv => ServiceGuarded
    BY DEF GuardInv, Ruled, Keyed, Gated, Rules, ServiceGuarded
  <1> QED BY <1>1, <1>2, InitGuardInv, PTL DEF Spec

----------------------------------------------------------------------------
(***************************************************************************)
(* The routes: a loop over the entries.                                    *)
(***************************************************************************)
RouteStep(tree, routes, entry) ==
  Group(routes, Optional(entry, "model_name"), Target(entry, Settings(tree)))

Routed == INSTANCE FoldProofs WITH Step <- RouteStep

\* As KeysGuarded has it.
Guarded(target) ==
  /\ target.api_key => target.https
  /\ target.provider # "openai_compatible" => target.api_key

RouteFields == {"model_name", "targets"}

Named(name) == name # ""

GuardedRoute(route) ==
  /\ route = [field \in RouteFields |-> route[field]]
  /\ Named(route.model_name)
  /\ IsSeq(route.targets) /\ Len(route.targets) # 0
  /\ \A k \in DOMAIN route.targets : Guarded(route.targets[k])

GuardedRoutes(routes) ==
  IsSeq(routes) /\ \A i \in DOMAIN routes : GuardedRoute(routes[i])

\* What validate_target and validate_and_normalize_api_base let through.
LEMMA ValidIsGuarded ==
  ASSUME NEW entry, NEW settings, ValidEntry(entry)
  PROVE  Guarded(Target(entry, settings))
  <1> DEFINE params == Value(entry, "litellm_params")
             provider == Models[Optional(params, "model")].prefix
             key == Optional(params, "api_key")
             base == Optional(params, "api_base")
             target == Target(entry, settings)
  <1>1. /\ IF key = Absent THEN ~Branded(provider) ELSE TRUE
        /\ IF base = Absent THEN Branded(provider) ELSE ValidBase(base, provider, key # Absent)
    BY DEF ValidEntry
  <1>2. /\ target.api_key = (key # Absent)
        /\ target.https = (base = Absent \/ Urls[base].scheme = "https")
        /\ target.provider = provider
    BY DEF Target
  <1> HIDE DEF params, provider, key, base, target
  <1>3. key = Absent => provider = "openai_compatible"
    BY <1>1 DEF Branded
  <1>4. key # Absent => base = Absent \/ Urls[base].scheme = "https"
    BY <1>1 DEF ValidBase
  <1>5. Guarded(target)
    BY <1>2, <1>3, <1>4, Zenon DEF Guarded
  <1> QED
    BY <1>5 DEF target

\* The first route of a name.
LEMMA FirstRoute ==
  ASSUME NEW routes, IsSeq(routes), NEW name, RouteAt(routes, name) # {}
  PROVE  /\ Min(RouteAt(routes, name)) \in RouteAt(routes, name)
         /\ RouteAt(routes, name) \subseteq DOMAIN routes
  <1> DEFINE at == RouteAt(routes, name)
  <1>1. at \in SUBSET Nat /\ at \subseteq DOMAIN routes
    BY DEF RouteAt, IsSeq
  <1> HIDE DEF at
  <1>2. at # {}
    BY DEF at
  <1>3. \E n \in at : \A m \in at : n <= m
    BY <1>1, <1>2, Routed!LeastNat
  <1>4. Min(at) \in at
    BY <1>3 DEF Min
  <1> QED
    BY <1>1, <1>4 DEF at

\* A valid name is not empty, whatever Names says of the others.
LEMMA ValidIsNamed ==
  ASSUME NEW name, ValidName(name)
  PROVE  Named(name)
  <1>1. Names[name].length \in 1 .. 128
    BY DEF ValidName
  <1>2. Names[name].length # 0
    BY <1>1
  <1> QED
    BY <1>2, ConfigAssumption, Zenon DEF Named

\* One more target, in a new route or in the route of its name, keeps the routes guarded.
LEMMA GroupKeeps ==
  ASSUME NEW routes, GuardedRoutes(routes), NEW name, Named(name), NEW target, Guarded(target)
  PROVE  GuardedRoutes(Group(routes, name, target))
  <1>0. IsSeq(routes)
    BY DEF GuardedRoutes
  <1>1. CASE RouteAt(routes, name) # {}
    <2> DEFINE at == Min(RouteAt(routes, name))
               targets == Append(routes[at].targets, target)
               route == [routes[at] EXCEPT !.targets = targets]
    <2>1. at \in DOMAIN routes
      BY <1>0, <1>1, FirstRoute
    <2>2. Group(routes, name, target) = [routes EXCEPT ![at] = route]
      BY <1>1 DEF Group
    <2> HIDE DEF at
    <2>3. GuardedRoute(routes[at])
      BY <2>1 DEF GuardedRoutes
    <2>4. /\ IsSeq(targets)
          /\ Len(routes[at].targets) \in Nat
          /\ DOMAIN routes[at].targets = 1 .. Len(routes[at].targets)
          /\ Len(targets) = Len(routes[at].targets) + 1
          /\ DOMAIN targets = 1 .. Len(routes[at].targets) + 1
          /\ \A k \in 1 .. Len(routes[at].targets) : targets[k] = routes[at].targets[k]
          /\ targets[Len(routes[at].targets) + 1] = target
      BY <2>3, AppendAny DEF GuardedRoute
    <2> HIDE DEF targets
    <2>5. \A k \in DOMAIN targets : Guarded(targets[k])
      <3> HIDE DEF route
      <3>1. \A k \in DOMAIN routes[at].targets : Guarded(routes[at].targets[k])
        BY <2>3 DEF GuardedRoute
      <3> QED
        BY <2>4, <3>1
    <2>6. /\ route = [field \in RouteFields |-> route[field]]
          /\ route.targets = targets /\ route.model_name = routes[at].model_name
      BY <2>3 DEF GuardedRoute, RouteFields
    <2> HIDE DEF route
    <2>7. GuardedRoute(route)
      BY <2>3, <2>4, <2>5, <2>6 DEF GuardedRoute
    <2> DEFINE next == [routes EXCEPT ![at] = route]
    <2>8. /\ IsSeq(next) /\ DOMAIN next = DOMAIN routes
          /\ next[at] = route
          /\ \A i \in DOMAIN routes : i # at => next[i] = routes[i]
      BY <1>0, <2>1, ExceptAny
    <2> HIDE DEF next
    <2>9. GuardedRoutes(next)
      BY <2>7, <2>8 DEF GuardedRoutes
    <2> QED
      BY <2>2, <2>9 DEF next
  <1>2. CASE RouteAt(routes, name) = {}
    <2> DEFINE targets == <<target>>
               route == [model_name |-> name, targets |-> targets]
               next == Append(routes, route)
    <2>1. targets = Append(<<>>, target)
      OBVIOUS
    <2>2. IsSeq(targets) /\ DOMAIN targets = {1} /\ targets[1] = target /\ Len(targets) = 1
      <3>1. targets \in Seq({target})
        OBVIOUS
      <3>2. IsSeq(targets)
        BY <3>1 DEF IsSeq
      <3> QED
        BY <3>2
    <2> HIDE DEF targets
    <2>3. /\ route = [field \in RouteFields |-> route[field]]
          /\ route.targets = targets /\ route.model_name = name
      BY DEF RouteFields
    <2> HIDE DEF route, next
    <2>10. Len(targets) # 0
      BY <2>2
    <2>8. Len(route.targets) # 0 /\ IsSeq(route.targets) /\ Named(route.model_name)
      BY <2>2, <2>3, <2>10, Zenon
    <2>9. \A k \in DOMAIN route.targets : Guarded(route.targets[k])
      BY <2>2, <2>3
    <2>4. GuardedRoute(route)
      BY <2>3, <2>8, <2>9, Zenon DEF GuardedRoute
    <2>5. /\ IsSeq(next)
          /\ Len(routes) \in Nat /\ DOMAIN routes = 1 .. Len(routes)
          /\ DOMAIN next = 1 .. Len(routes) + 1
          /\ \A i \in 1 .. Len(routes) : next[i] = routes[i]
          /\ next[Len(routes) + 1] = route
      BY <1>0, AppendAny DEF next
    <2>6. Group(routes, name, target) = next
      BY <1>2 DEF Group, next, route, targets
    <2>7. GuardedRoutes(next)
      BY <2>4, <2>5 DEF GuardedRoutes
    <2> QED
      BY <2>6, <2>7
  <1> QED
    BY <1>1, <1>2

\* The last value of a key is an item.
LEMMA ValueIsItem ==
  ASSUME NEW node, Deep(node), node.node = "map", NEW key, Has(node, key)
  PROVE  \E i \in DOMAIN node.items : Value(node, key) = node.items[i]
  <1>1. /\ IsSeq(node.keys) /\ IsSeq(node.items) /\ Len(node.keys) = Len(node.items)
    BY DEF Deep, Whole
  <1> DEFINE n == Len(node.keys)
             S == {m \in 0 .. n : n - m \in DOMAIN node.keys /\ node.keys[n - m] = key}
  <1>2. n \in Nat /\ DOMAIN node.keys = 1 .. n /\ DOMAIN node.items = 1 .. n
    BY <1>1 DEF IsSeq
  <1>3. PICK i \in DOMAIN node.keys : node.keys[i] = key
    BY DEF Has, ToSet
  <1> HIDE DEF n
  <1>4. n - i \in S
    <2>1. i \in 1 .. n /\ n - i \in 0 .. n /\ n - (n - i) = i
      BY <1>2, <1>3
    <2> QED
      BY <2>1, <1>3
  <1>5. S \in SUBSET Nat /\ S # {}
    BY <1>4
  <1>6. PICK m \in S : \A k \in S : m <= k
    BY <1>5, Routed!LeastNat
  <1>7. n - m \in DOMAIN node.keys /\ node.keys[n - m] = key /\ m \in 0 .. n
    BY <1>6
  <1>8. ASSUME NEW j \in DOMAIN node.keys, j > n - m PROVE node.keys[j] # key
    <2> SUFFICES ASSUME node.keys[j] = key PROVE FALSE
      OBVIOUS
    <2>1. j \in 1 .. n /\ n - j \in 0 .. n /\ n - (n - j) = j
      BY <1>2
    <2>2. n - j \in S
      BY <2>1
    <2>3. m <= n - j
      BY <2>2, <1>6
    <2>4. j > n - m /\ n - m \in 1 .. n /\ m \in 0 .. n
      BY <1>2, <1>7, <1>8
    <2> QED
      BY <1>2, <2>1, <2>3, <2>4
  <1> DEFINE Latest(p) == node.keys[p] = key /\ \A j \in DOMAIN node.keys : j > p => node.keys[j] # key
             at == CHOOSE p \in DOMAIN node.keys : Latest(p)
  <1>9. Latest(n - m)
    BY <1>7, <1>8
  <1>10. Value(node, key) = node.items[at]
    BY DEF Value
  <1> HIDE DEF Latest
  <1>11. at \in DOMAIN node.keys
    BY <1>7, <1>9
  <1> HIDE DEF at
  <1> QED
    BY <1>2, <1>10, <1>11

\* The entries of a file are a sequence, also when model_list is missing.
LEMMA EntriesAreSeq ==
  ASSUME NEW tree, Deep(tree), tree.node = "map"
  PROVE  IsSeq(Entries(tree))
  <1>1. CASE Has(tree, "model_list")
    <2>1. PICK i \in DOMAIN tree.items : Value(tree, "model_list") = tree.items[i]
      BY <1>1, ValueIsItem
    <2>2. IsSeq(tree.items[i].items)
      BY DEF Deep, Whole
    <2> QED
      BY <1>1, <2>1, <2>2 DEF Entries
  <1>2. CASE ~Has(tree, "model_list")
    BY <1>2, EmptyIsSeq DEF Entries
  <1> QED
    BY <1>1, <1>2

\* Routes is a fold over the entries, so that what each entry keeps holds at the end.
LEMMA RoutesAreFolded ==
  ASSUME NEW tree
  PROVE  Routes(tree) = Routed!Fold(tree, <<>>, Entries(tree))
  BY Zenon DEF Routes, RouteStep, Routed!Fold, Routed!FoldLeft, FoldLeft,
               Routed!MapThenFoldSet, MapThenFoldSet, Max, Routed!Max

\* build_runtime_config: the routes of a file that builds.
LEMMA BuildsGuarded ==
  ASSUME NEW tree, Deep(tree), tree.node = "map", NEW noAuth, Builds(tree, noAuth)
  PROVE  GuardedRoutes(Routes(tree))
  <1> DEFINE entries == Entries(tree)
             n == Len(entries)
  <1>1. IsSeq(entries)
    BY EntriesAreSeq
  <1>2. n \in Nat /\ DOMAIN entries = 1 .. n
    BY <1>1, SameLength DEF IsSeq
  <1>3. \A i \in DOMAIN entries : ValidEntry(entries[i])
    BY DEF Builds
  <1>4. Routes(tree) = Routed!Fold(tree, <<>>, entries)
    BY RoutesAreFolded
  <1> HIDE DEF entries, n
  <1>5. PICK f : Routed!Trace(tree, <<>>, entries, n, f) /\ Routed!Fold(tree, <<>>, entries) = f[n]
    BY <1>2, Routed!FoldTrace
  <1> DEFINE T == {i \in Nat : i <= n => GuardedRoutes(f[i])}
  <1>6. 0 \in T
    <2>1. f[0] = <<>>
      BY <1>5 DEF Routed!Trace
    <2>2. GuardedRoutes(<<>>)
      BY EmptyIsSeq DEF GuardedRoutes
    <2> QED
      BY <2>1, <2>2
  <1>7. ASSUME NEW i \in Nat, i \in T PROVE i + 1 \in T
    <2> SUFFICES ASSUME i + 1 <= n PROVE GuardedRoutes(f[i + 1])
      OBVIOUS
    <2>1. i + 1 \in 1 .. n /\ (i + 1) - 1 = i /\ GuardedRoutes(f[i])
      BY <1>2, <1>7
    <2> DEFINE entry == entries[i + 1]
    <2>2. f[i + 1] = RouteStep(tree, f[i], entry)
      BY <1>5, <2>1 DEF Routed!Trace
    <2>3. ValidEntry(entry)
      BY <1>2, <1>3, <2>1
    <2> HIDE DEF entry
    <2>4. Guarded(Target(entry, Settings(tree)))
      BY <2>3, ValidIsGuarded
    <2>5. PICK name : name = Optional(entry, "model_name")
      OBVIOUS
    <2>7. Named(name)
      <3>1. ValidName(name)
        BY <2>3, <2>5 DEF ValidEntry
      <3> QED
        BY <3>1, ValidIsNamed
    <2>6. GuardedRoutes(Group(f[i], name, Target(entry, Settings(tree))))
      BY <2>1, <2>4, <2>7, GroupKeeps
    <2> QED
      BY <2>2, <2>5, <2>6 DEF RouteStep
  <1> HIDE DEF T
  <1>8. Nat \subseteq T
    BY <1>6, <1>7, Routed!SetInduction
  <1> QED
    BY <1>2, <1>4, <1>5, <1>8 DEF T

----------------------------------------------------------------------------
(***************************************************************************)
(* What is built is guarded: the tree that is deserialized is a mapping,   *)
(* of which the routes are made.                                           *)
(***************************************************************************)
BuildInv ==
  /\ Trees
  /\ stage = "deserialize" => root.node = "map"
  /\ stage = "built" => GuardedRoutes(config.routes)

LEMMA InitBuildInv == Init => BuildInv
  BY InitTrees DEF Init, StartInit, BuildInv

\* Nor has a reader that is thrown away anything but trees.
LEMMA NoTrees == ASSUME open' = <<>>, root' = NoNode PROVE Trees'
  <1>1. Deep(root')
    BY FreshDeep DEF NoNode
  <1> QED
    BY <1>1, EmptyIsSeq DEF Trees, Stack

\* What is built on the way to serving is guarded.
LEMMA StartBuilds == ASSUME BuildInv, StartNext PROVE BuildInv'
  <1> USE DEF BuildInv
  <1>1. ASSUME NEW with, Exit(with) PROVE BuildInv'
    BY <1>1, NoTrees DEF Exit
  <1>2. ASSUME UNCHANGED <<open, root>> PROVE Trees'
    BY <1>2 DEF Trees
  <1>3. CASE ParseArguments \/ ReadFile
    BY <1>2, <1>3 DEF ParseArguments, ReadFile, Goto, readerVars
  <1>4. CASE Parse
    BY <1>4, ReaderKeeps DEF Parse
  <1>5. CASE Deserialize
    BY <1>2, <1>5 DEF Deserialize, Goto, readerVars, Deserializes, Mapping
  <1>6. CASE Build
    <2>1. GuardedRoutes(Routes(root))
      BY <1>6, BuildsGuarded DEF Build, Trees
    <2>2. config'.routes = Routes(root) /\ stage' = "built"
      BY <1>6 DEF Build, RuntimeConfig, Goto
    <2>3. open' = open /\ root' = NoNode
      BY <1>6 DEF Build
    <2>4. Deep(root')
      BY <2>3, FreshDeep DEF NoNode
    <2>5. Trees'
      BY <2>3, <2>4 DEF Trees
    <2> QED
      BY <2>1, <2>2, <2>5
  <1> QED
    BY <1>1, <1>3, <1>4, <1>5, <1>6
    DEF StartNext, RefuseArguments, ReadFileFails, ParseFails, DeserializeFails, BuildFails,
        Validate, ServeFails

\* The conversation has nothing to do with it.
LEMMA BuildInvKept == BuildInv /\ [Next]_vars => BuildInv'
  <1>1. ASSUME BuildInv, UNCHANGED startVars PROVE BuildInv'
    BY <1>1 DEF startVars, readerVars, BuildInv, Trees
  <1>2. ASSUME BuildInv, Serve PROVE BuildInv'
    BY <1>2 DEF Serve, readerVars, BuildInv, Trees
  <1> QED
    BY <1>1, <1>2, StartBuilds DEF Next, vars

(***************************************************************************)
(* No key goes anywhere in the clear and no service is open by mistake,    *)
(* whatever the file and the command line say: every target that is built  *)
(* for a provider that wants a key has one, and is spoken to over TLS if   *)
(* it has one; and the service is guarded as ServiceIsGuarded says         *)
(* (validate_target, validate_and_normalize_api_base, is_authenticated).   *)
(***************************************************************************)
THEOREM CredentialsAreGuarded == Spec => []CredentialsGuarded
  <1>1. BuildInv /\ [Next]_vars => BuildInv'
    BY BuildInvKept
  <1>2. BuildInv => KeysGuarded
    <2> SUFFICES ASSUME BuildInv, stage = "built",
                        NEW i \in DOMAIN config.routes,
                        NEW k \in DOMAIN config.routes[i].targets
                 PROVE  Guarded(config.routes[i].targets[k])
      BY Zenon DEF KeysGuarded, Guarded
    <2> QED
      BY DEF BuildInv, GuardedRoutes, GuardedRoute
  <1>3. Spec => []KeysGuarded
    BY <1>1, <1>2, InitBuildInv, PTL DEF Spec
  <1> QED
    BY <1>3, ServiceIsGuarded, PTL DEF CredentialsGuarded

----------------------------------------------------------------------------
(***************************************************************************)
(* What is in a route: the targets of the entries that bear its name, in   *)
(* the order of the file, and of no other entry.                           *)
(***************************************************************************)
Wanted(tree, name) == [settings |-> Settings(tree), name |-> name]

OwnStep(wanted, targets, entry) ==
  IF Optional(entry, "model_name") = wanted.name
  THEN Append(targets, Target(entry, wanted.settings)) ELSE targets

Own == INSTANCE FoldProofs WITH Step <- OwnStep

OwnTargets(tree, name) == Own!Fold(Wanted(tree, name), <<>>, Entries(tree))

PlainRoutes(routes) ==
  /\ IsSeq(routes)
  /\ \A i \in DOMAIN routes : routes[i] = [field \in RouteFields |-> routes[i][field]]
  /\ \A i, j \in DOMAIN routes : routes[i].model_name = routes[j].model_name => i = j

\* A target goes to the route of its name, at the end, and to no other.
LEMMA GroupAdds ==
  ASSUME NEW routes, PlainRoutes(routes), NEW name, NEW target
  PROVE  LET next == Group(routes, name, target)
         IN /\ PlainRoutes(next)
            /\ GetRoute(next, name) = Append(GetRoute(routes, name), target)
            /\ \A other : other # name => GetRoute(next, other) = GetRoute(routes, other)
  <1>0. IsSeq(routes)
    BY DEF PlainRoutes
  <1>1. CASE RouteAt(routes, name) # {}
    <2> DEFINE at == Min(RouteAt(routes, name))
               targets == Append(routes[at].targets, target)
               route == [routes[at] EXCEPT !.targets = targets]
    <2>1. at \in RouteAt(routes, name) /\ at \in DOMAIN routes
      BY <1>0, <1>1, FirstRoute
    <2>2. Group(routes, name, target) = [routes EXCEPT ![at] = route]
      BY <1>1 DEF Group
    <2>3. GetRoute(routes, name) = routes[at].targets
      BY <1>1 DEF GetRoute
    <2>4. routes[at].model_name = name
      BY <2>1 DEF RouteAt
    <2>5. routes[at] = [field \in RouteFields |-> routes[at][field]]
      BY <2>1 DEF PlainRoutes
    <2> DEFINE all == RouteAt(routes, name)
    <2>6. at = Min(all) /\ all = RouteAt(routes, name)
      OBVIOUS
    <2> HIDE DEF at, targets, all
    <2>7. /\ route = [field \in RouteFields |-> route[field]]
          /\ route.targets = targets /\ route.model_name = name
      BY <2>4, <2>5 DEF RouteFields
    <2> HIDE DEF route
    <2> DEFINE next == [routes EXCEPT ![at] = route]
    <2>8. /\ IsSeq(next) /\ DOMAIN next = DOMAIN routes
          /\ next[at] = route
          /\ \A i \in DOMAIN routes : i # at => next[i] = routes[i]
      BY <1>0, <2>1, ExceptAny
    <2> HIDE DEF next
    <2>9. \A i \in DOMAIN routes : next[i].model_name = routes[i].model_name
      BY <2>4, <2>7, <2>8
    <2>10. PlainRoutes(next)
      BY <2>7, <2>8, <2>9 DEF PlainRoutes
    <2>11. \A other : RouteAt(next, other) = RouteAt(routes, other)
      BY <2>8, <2>9 DEF RouteAt
    <2>12. GetRoute(next, name) = targets
      BY <1>1, <2>6, <2>7, <2>8, <2>11 DEF GetRoute
    <2>13. ASSUME NEW other, other # name PROVE GetRoute(next, other) = GetRoute(routes, other)
      <3>1. CASE RouteAt(routes, other) = {}
        BY <2>11, <3>1 DEF GetRoute
      <3>2. CASE RouteAt(routes, other) # {}
        <4> DEFINE first == Min(RouteAt(routes, other))
        <4>1. first \in RouteAt(routes, other)
          BY <1>0, <3>2, FirstRoute
        <4>2. GetRoute(routes, other) = routes[first].targets
              /\ GetRoute(next, other) = next[first].targets
          BY <2>11, <3>2 DEF GetRoute
        <4> HIDE DEF first
        <4>3. first \in DOMAIN routes /\ routes[first].model_name = other
          BY <4>1 DEF RouteAt
        <4>4. first # at
          BY <2>4, <2>13, <4>3
        <4> QED
          BY <2>8, <4>2, <4>3, <4>4
      <3> QED
        BY <3>1, <3>2
    <2> QED
      BY <2>2, <2>3, <2>10, <2>12, <2>13 DEF next, targets
  <1>2. CASE RouteAt(routes, name) = {}
    <2> DEFINE targets == <<target>>
               route == [model_name |-> name, targets |-> targets]
               next == Append(routes, route)
               n == Len(routes)
    <2>1. targets = Append(<<>>, target)
      OBVIOUS
    <2>2. GetRoute(routes, name) = <<>>
      BY <1>2 DEF GetRoute
    <2> HIDE DEF targets
    <2>3. /\ route = [field \in RouteFields |-> route[field]]
          /\ route.targets = targets /\ route.model_name = name
      BY DEF RouteFields
    <2>4. Group(routes, name, target) = next
      BY <1>2 DEF Group, targets
    <2> HIDE DEF route, next
    <2>5. /\ IsSeq(next)
          /\ n \in Nat /\ DOMAIN routes = 1 .. n
          /\ DOMAIN next = 1 .. n + 1
          /\ \A i \in 1 .. n : next[i] = routes[i]
          /\ next[n + 1] = route
      BY <1>0, AppendAny DEF next
    <2> HIDE DEF n
    <2>6. \A i \in 1 .. n : routes[i].model_name # name
      BY <1>2, <2>5 DEF RouteAt
    <2>7. n + 1 \in 1 .. n + 1 /\ 1 .. n + 1 = (1 .. n) \cup {n + 1} /\ n + 1 \notin 1 .. n
      BY <2>5
    <2>8. PlainRoutes(next)
      <3>1. \A i \in DOMAIN next : next[i] = [field \in RouteFields |-> next[i][field]]
        BY <2>3, <2>5, <2>7 DEF PlainRoutes
      <3>2. \A i, j \in DOMAIN next : next[i].model_name = next[j].model_name => i = j
        BY <2>3, <2>5, <2>6, <2>7 DEF PlainRoutes
      <3> QED
        BY <2>5, <3>1, <3>2 DEF PlainRoutes
    <2>9. RouteAt(next, name) = {n + 1}
      BY <2>3, <2>5, <2>6, <2>7 DEF RouteAt
    <2>10. GetRoute(next, name) = targets
      <3>1. RouteAt(next, name) # {}
        BY <2>9
      <3>2. Min(RouteAt(next, name)) \in RouteAt(next, name)
        BY <2>5, <3>1, FirstRoute
      <3>3. Min(RouteAt(next, name)) = n + 1
        BY <3>2, <2>9
      <3> QED
        BY <2>3, <2>5, <3>1, <3>3 DEF GetRoute
    <2>11. ASSUME NEW other, other # name PROVE GetRoute(next, other) = GetRoute(routes, other)
      <3>1. RouteAt(next, other) = RouteAt(routes, other)
        BY <2>3, <2>5, <2>7, <2>11 DEF RouteAt
      <3>2. CASE RouteAt(routes, other) = {}
        BY <3>1, <3>2 DEF GetRoute
      <3>3. CASE RouteAt(routes, other) # {}
        <4>1. Min(RouteAt(routes, other)) \in 1 .. n
          BY <1>0, <2>5, <3>3, FirstRoute DEF RouteAt
        <4> QED
          BY <2>5, <3>1, <3>3, <4>1 DEF GetRoute
      <3> QED
        BY <3>2, <3>3
    <2> QED
      BY <2>1, <2>2, <2>4, <2>8, <2>10, <2>11
  <1> QED
    BY <1>1, <1>2

\* The routes of any number of entries.
LEMMA RoutesOfTree ==
  ASSUME NEW tree, IsSeq(Entries(tree))
  PROVE  /\ PlainRoutes(Routes(tree))
         /\ \A name : GetRoute(Routes(tree), name) = OwnTargets(tree, name)
  <1> DEFINE entries == Entries(tree)
             n == Len(entries)
  <1>1. n \in Nat /\ DOMAIN entries = 1 .. n
    BY SameLength DEF IsSeq
  <1>2. Routes(tree) = Routed!Fold(tree, <<>>, entries)
    BY RoutesAreFolded
  <1>3. SUFFICES ASSUME NEW name
                 PROVE  /\ PlainRoutes(Routes(tree))
                        /\ GetRoute(Routes(tree), name) = OwnTargets(tree, name)
    OBVIOUS
  <1> DEFINE wanted == Wanted(tree, name)
  <1>4. OwnTargets(tree, name) = Own!Fold(wanted, <<>>, entries)
    BY DEF OwnTargets
  <1>5. wanted.name = name /\ wanted.settings = Settings(tree)
    BY DEF Wanted
  <1> HIDE DEF entries, n, wanted
  <1>6. PICK f : Routed!Trace(tree, <<>>, entries, n, f) /\ Routed!Fold(tree, <<>>, entries) = f[n]
    BY <1>1, Routed!FoldTrace
  <1>7. PICK g : Own!Trace(wanted, <<>>, entries, n, g) /\ Own!Fold(wanted, <<>>, entries) = g[n]
    BY <1>1, Own!FoldTrace
  <1> DEFINE T == {i \in Nat : i <= n => PlainRoutes(f[i]) /\ GetRoute(f[i], name) = g[i]}
  <1>8. 0 \in T
    <2>1. f[0] = <<>> /\ g[0] = <<>>
      BY <1>6, <1>7 DEF Routed!Trace, Own!Trace
    <2>2. PlainRoutes(<<>>)
      BY EmptyIsSeq DEF PlainRoutes
    <2>3. RouteAt(<<>>, name) = {}
      BY EmptyIsSeq DEF RouteAt
    <2>4. GetRoute(<<>>, name) = <<>>
      BY <2>3 DEF GetRoute
    <2> QED
      BY <2>1, <2>2, <2>4
  <1>9. ASSUME NEW i \in Nat, i \in T PROVE i + 1 \in T
    <2> SUFFICES ASSUME i + 1 <= n
                 PROVE  PlainRoutes(f[i + 1]) /\ GetRoute(f[i + 1], name) = g[i + 1]
      OBVIOUS
    <2>1. i + 1 \in 1 .. n /\ (i + 1) - 1 = i /\ PlainRoutes(f[i]) /\ GetRoute(f[i], name) = g[i]
      BY <1>1, <1>9
    <2> DEFINE entry == entries[i + 1]
               own == Optional(entry, "model_name")
               target == Target(entry, Settings(tree))
    <2>2. f[i + 1] = Group(f[i], own, target)
      BY <1>6, <2>1 DEF Routed!Trace, RouteStep
    <2>3. g[i + 1] = IF own = name THEN Append(g[i], target) ELSE g[i]
      BY <1>5, <1>7, <2>1 DEF Own!Trace, OwnStep
    <2> HIDE DEF own, target
    <2>4. /\ PlainRoutes(f[i + 1])
          /\ GetRoute(f[i + 1], own) = Append(GetRoute(f[i], own), target)
          /\ \A other : other # own => GetRoute(f[i + 1], other) = GetRoute(f[i], other)
      BY <2>1, <2>2, GroupAdds
    <2> QED
      BY <2>1, <2>3, <2>4
  <1> HIDE DEF T
  <1>10. Nat \subseteq T
    BY <1>8, <1>9, Routed!SetInduction
  <1> QED
    BY <1>1, <1>2, <1>4, <1>6, <1>7, <1>10 DEF T

(***************************************************************************)
(* The table that is built from a file has one route for each name, and    *)
(* what get_route finds under a name is the targets of the entries with    *)
(* that name, all of them and in the order of the file, equal ones too     *)
(* (build_runtime_config, RuntimeConfig::get_route).                       *)
(***************************************************************************)
BuildsOwnRoutes ==
  /\ \A i, j \in DOMAIN config'.routes :
       config'.routes[i].model_name = config'.routes[j].model_name => i = j
  /\ \A name : GetRoute(config'.routes, name) = OwnTargets(root, name)

THEOREM RoutesAreOwn == Spec => [][Build => BuildsOwnRoutes]_vars
  <1>1. BuildInv /\ [Next]_vars => BuildInv'
    BY BuildInvKept
  <1>2. ASSUME BuildInv, Build PROVE BuildsOwnRoutes
    <2>1. config'.routes = Routes(root)
      BY <1>2 DEF Build, RuntimeConfig
    <2>2. Deep(root) /\ root.node = "map"
      BY <1>2 DEF Build, BuildInv, Trees
    <2>3. IsSeq(Entries(root))
      BY <2>2, EntriesAreSeq
    <2>4. /\ PlainRoutes(Routes(root))
          /\ \A name : GetRoute(Routes(root), name) = OwnTargets(root, name)
      BY <2>3, RoutesOfTree
    <2> QED
      BY <2>1, <2>4 DEF PlainRoutes, BuildsOwnRoutes
  <1>3. BuildInv /\ [Next]_vars => [Build => BuildsOwnRoutes]_vars
    BY <1>2
  <1> QED
    BY <1>1, <1>3, InitBuildInv, PTL DEF Spec

----------------------------------------------------------------------------
(***************************************************************************)
(* What the tree of a file says of its entries.                            *)
(***************************************************************************)
LEMMA WordsDiffer ==
  /\ \A key, other : Word(key) = Word(other) <=> key = other
  /\ \A k, l : Nth(k) = Nth(l) <=> k = l
  BY DEF Word, Nth

\* A mapping says what it says under a key in its value alone.
LEMMA SaysKey ==
  ASSUME NEW node, Whole(node), KeysApart(node), node.node = "map", NEW key,
         NEW path, NEW from \in Nat, NEW to \in Nat, from < to, path[from + 1] = Word(key),
         NEW text
  PROVE  Says(node, path, from, to, text)
           <=> Has(node, key) /\ Says(Value(node, key), path, from + 1, to, text)
  <1>1. /\ IsSeq(node.keys) /\ IsSeq(node.items) /\ Len(node.keys) = Len(node.items)
    BY DEF Whole
  <1>2. DOMAIN node.keys \subseteq Nat /\ DOMAIN node.items = DOMAIN node.keys
    BY <1>1 DEF IsSeq
  <1>3. Says(node, path, from, to, text) <=> SaysThrough(node, path, from, to, text)
    BY SaysBelow
  <1>4. \A i \in DOMAIN node.items : Label(node, i) = path[from + 1] <=> node.keys[i] = key
    BY WordsDiffer DEF Label
  <1>5. CASE ~Has(node, key)
    <2>1. \A i \in DOMAIN node.items : node.keys[i] # key
      BY <1>2, <1>5 DEF Has, ToSet
    <2> QED
      BY <1>3, <1>4, <1>5, <2>1 DEF SaysThrough
  <1>6. CASE Has(node, key)
    <2>1. PICK i \in DOMAIN node.keys : node.keys[i] = key
      BY <1>6 DEF Has, ToSet
    <2> DEFINE Latest(p) == node.keys[p] = key /\ \A j \in DOMAIN node.keys : j > p => node.keys[j] # key
               at == CHOOSE p \in DOMAIN node.keys : Latest(p)
    <2>2. \A j \in DOMAIN node.keys : node.keys[j] = key <=> j = i
      BY <2>1 DEF KeysApart
    <2>3. \A j \in DOMAIN node.keys : j > i => j # i
      BY <1>2
    <2>4. Latest(i)
      BY <2>1, <2>2, <2>3
    <2>5. at \in DOMAIN node.keys /\ node.keys[at] = key
      BY <2>1, <2>4
    <2>6. Value(node, key) = node.items[at]
      BY DEF Value
    <2> HIDE DEF at, Latest
    <2>7. Value(node, key) = node.items[i]
      BY <2>2, <2>5, <2>6
    <2>8. \A j \in DOMAIN node.items : Label(node, j) = path[from + 1] <=> j = i
      BY <1>2, <1>4, <2>2
    <2> QED
      BY <1>2, <1>3, <1>6, <2>1, <2>7, <2>8 DEF SaysThrough
  <1> QED
    BY <1>5, <1>6

\* A sequence says what it says under a number in that item alone.
LEMMA SaysNth ==
  ASSUME NEW node, node.node = "seq", NEW k,
         NEW path, NEW from \in Nat, NEW to \in Nat, from < to, path[from + 1] = Nth(k),
         NEW text
  PROVE  Says(node, path, from, to, text)
           <=> k \in DOMAIN node.items /\ Says(node.items[k], path, from + 1, to, text)
  <1>1. Says(node, path, from, to, text) <=> SaysThrough(node, path, from, to, text)
    BY SaysBelow
  <1>2. \A i \in DOMAIN node.items : Label(node, i) = path[from + 1] <=> i = k
    BY WordsDiffer DEF Label
  <1> QED
    BY <1>1, <1>2 DEF SaysThrough

\* A value that is there is an item.
LEMMA ValueInside ==
  ASSUME NEW S, GoodNodes(S), NEW node \in S, node.node = "map", NEW key, Has(node, key)
  PROVE  Value(node, key) \in S
  <1>1. Whole(node) /\ KeysApart(node) /\ Inside(node, S)
    BY DEF GoodNodes
  <1>2. DOMAIN node.keys \subseteq Nat /\ DOMAIN node.items = DOMAIN node.keys
    BY <1>1 DEF Whole, IsSeq
  <1>3. PICK i \in DOMAIN node.keys : node.keys[i] = key
    BY DEF Has, ToSet
  <1> DEFINE Latest(p) == node.keys[p] = key /\ \A j \in DOMAIN node.keys : j > p => node.keys[j] # key
             at == CHOOSE p \in DOMAIN node.keys : Latest(p)
  <1>4. \A j \in DOMAIN node.keys : j > i => j # i
    BY <1>2
  <1>5. Latest(i)
    BY <1>1, <1>3, <1>4 DEF KeysApart
  <1>6. at \in DOMAIN node.keys
    BY <1>3, <1>5
  <1>7. Value(node, key) = node.items[at]
    BY DEF Value
  <1> HIDE DEF at, Latest
  <1> QED
    BY <1>1, <1>2, <1>6, <1>7 DEF Inside

NameOf(entry) == Optional(entry, "model_name")
ModelOf(entry) == Optional(Value(entry, "litellm_params"), "model")

LEMMA PathItems ==
  ASSUME NEW k
  PROVE  /\ IsSeq(NamePath(k)) /\ Len(NamePath(k)) = 3
         /\ NamePath(k)[1] = Word("model_list")
         /\ NamePath(k)[2] = Nth(k)
         /\ NamePath(k)[3] = Word("model_name")
         /\ IsSeq(ModelPath(k)) /\ Len(ModelPath(k)) = 4
         /\ ModelPath(k)[1] = Word("model_list")
         /\ ModelPath(k)[2] = Nth(k)
         /\ ModelPath(k)[3] = Word("litellm_params")
         /\ ModelPath(k)[4] = Word("model")
         /\ Nth(k)[2] = k
  <1> DEFINE S == {Word("model_list"), Nth(k), Word("model_name"), Word("litellm_params"), Word("model")}
  <1>1. NamePath(k) \in Seq(S) /\ ModelPath(k) \in Seq(S)
    BY DEF NamePath, ModelPath
  <1>2. IsSeq(NamePath(k)) /\ IsSeq(ModelPath(k))
    BY <1>1 DEF IsSeq
  <1> QED
    BY <1>2 DEF NamePath, ModelPath, Nth

\* A plain string is the text of its scalar.
LEMMA StringSays ==
  ASSUME NEW node, NEW key, Has(node, key), String(Value(node, key)),
         NEW path, NEW n \in Nat, NEW text
  PROVE  Says(Value(node, key), path, n, n, text) <=> text = Optional(node, key)
  <1>1. Says(Value(node, key), path, n, n, text)
          <=> Value(node, key).node = "scalar" /\ Value(node, key).text = text
    BY SaysHere
  <1>2. Value(node, key).node = "scalar" /\ Value(node, key).reads = "string"
    BY DEF String
  <1>3. Optional(node, key) = Value(node, key).text
    BY <1>2 DEF Optional
  <1> QED
    BY <1>1, <1>2, <1>3

SaysOf(tree, path, to, entries, k, text, own) ==
  Says(tree, path, 0, to, text) <=> k \in DOMAIN entries /\ text = own

LEMMA EntrySays ==
  ASSUME NEW tree, Apart(<<>>, tree), Deserializes(tree), Has(tree, "model_list"), NEW k, NEW text
  PROVE  /\ SaysOf(tree, NamePath(k), 3, Entries(tree), k, text, NameOf(Entries(tree)[k]))
         /\ SaysOf(tree, ModelPath(k), 4, Entries(tree), k, text, ModelOf(Entries(tree)[k]))
  <1> DEFINE list == Value(tree, "model_list")
             entry == list.items[k]
             params == Value(entry, "litellm_params")
  <1>1. PICK S : GoodNodes(S) /\ tree \in S
    BY DEF Apart
  <1>2. tree.node = "map" /\ GoodList(list)
    BY DEF Deserializes, Mapping, Each
  <1>3. list \in S
    BY <1>1, <1>2, ValueInside
  <1>4. list.node = "seq" /\ \A i \in DOMAIN list.items : GoodEntry(list.items[i])
    BY <1>2 DEF GoodList
  <1>5. Entries(tree) = list.items
    BY DEF Entries
  <1> HIDE DEF list
  <1>6. \A path, to : to \in Nat /\ 2 < to /\ path[1] = Word("model_list") /\ path[2] = Nth(k)
          => (Says(tree, path, 0, to, text)
                <=> k \in DOMAIN list.items /\ Says(entry, path, 2, to, text))
    <2> SUFFICES ASSUME NEW path, NEW to \in Nat, 2 < to,
                        path[1] = Word("model_list"), path[2] = Nth(k)
                 PROVE  Says(tree, path, 0, to, text)
                          <=> k \in DOMAIN list.items /\ Says(entry, path, 2, to, text)
      OBVIOUS
    <2>1. /\ 0 \in Nat /\ 0 < to /\ 0 + 1 = 1
          /\ 1 \in Nat /\ 1 < to /\ 1 + 1 = 2
      OBVIOUS
    <2>2. Whole(tree) /\ KeysApart(tree)
      BY <1>1 DEF GoodNodes
    <2>3. Says(tree, path, 0, to, text)
            <=> Has(tree, "model_list") /\ Says(Value(tree, "model_list"), path, 0 + 1, to, text)
      BY <1>2, <2>1, <2>2, SaysKey
    <2>4. Says(list, path, 1, to, text)
            <=> k \in DOMAIN list.items /\ Says(list.items[k], path, 1 + 1, to, text)
      BY <1>4, <2>1, SaysNth
    <2> QED
      BY <2>1, <2>3, <2>4 DEF list
  <1>7. ASSUME k \in DOMAIN list.items
        PROVE  /\ Says(entry, NamePath(k), 2, 3, text) <=> text = NameOf(entry)
               /\ Says(entry, ModelPath(k), 2, 4, text) <=> text = ModelOf(entry)
    <2>1. GoodEntry(entry) /\ entry \in S
      BY <1>1, <1>3, <1>4, <1>7 DEF GoodNodes, Inside
    <2> HIDE DEF entry
    <2>2. /\ entry.node = "map"
          /\ Has(entry, "model_name") /\ String(Value(entry, "model_name"))
          /\ Has(entry, "litellm_params") /\ GoodParams(params)
      BY <2>1 DEF GoodEntry, Mapping
    <2>3. params \in S
      BY <1>1, <2>1, <2>2, ValueInside
    <2>4. params.node = "map" /\ Has(params, "model") /\ String(Value(params, "model"))
      BY <2>2 DEF GoodParams, Mapping, Each
    <2>5. Whole(entry) /\ KeysApart(entry) /\ Whole(params) /\ KeysApart(params)
      BY <1>1, <2>1, <2>3 DEF GoodNodes
    <2>6. 2 \in Nat /\ 3 \in Nat /\ 4 \in Nat /\ 2 < 3 /\ 2 < 4 /\ 3 < 4 /\ 2 + 1 = 3 /\ 3 + 1 = 4
      OBVIOUS
    <2>7. Says(entry, NamePath(k), 2, 3, text)
            <=> Has(entry, "model_name") /\ Says(Value(entry, "model_name"), NamePath(k), 2 + 1, 3, text)
      BY <2>2, <2>5, <2>6, PathItems, SaysKey
    <2>8. Says(Value(entry, "model_name"), NamePath(k), 3, 3, text) <=> text = NameOf(entry)
      BY <2>2, <2>6, StringSays DEF NameOf
    <2>9. Says(entry, ModelPath(k), 2, 4, text)
            <=> Has(entry, "litellm_params") /\ Says(params, ModelPath(k), 2 + 1, 4, text)
      BY <2>2, <2>5, <2>6, PathItems, SaysKey
    <2>10. Says(params, ModelPath(k), 3, 4, text)
             <=> Has(params, "model") /\ Says(Value(params, "model"), ModelPath(k), 3 + 1, 4, text)
      <3> HIDE DEF params
      <3> QED
        BY <2>4, <2>5, <2>6, PathItems, SaysKey
    <2>11. Says(Value(params, "model"), ModelPath(k), 4, 4, text) <=> text = ModelOf(entry)
      BY <2>4, <2>6, StringSays DEF ModelOf
    <2> QED
      BY <2>2, <2>4, <2>6, <2>7, <2>8, <2>9, <2>10, <2>11
  <1> HIDE DEF entry
  <1>8. Says(tree, NamePath(k), 0, 3, text)
          <=> k \in DOMAIN list.items /\ Says(entry, NamePath(k), 2, 3, text)
    BY <1>6, PathItems
  <1>9. Says(tree, ModelPath(k), 0, 4, text)
          <=> k \in DOMAIN list.items /\ Says(entry, ModelPath(k), 2, 4, text)
    BY <1>6, PathItems
  <1> QED
    BY <1>5, <1>7, <1>8, <1>9 DEF SaysOf, entry

(***************************************************************************)
(* What the events list is the entries of the tree.                        *)
(***************************************************************************)
ListsEntries(said, entries) ==
  /\ Listed(said) = DOMAIN entries
  /\ \A k \in DOMAIN entries : /\ TextAt(said, NamePath(k)) = NameOf(entries[k])
                               /\ TextAt(said, ModelPath(k)) = ModelOf(entries[k])

\* The one text at a path is the one that is found there.
OneText(said, path, text) == \A other : Told(path, other) \in said <=> other = text

LEMMA TextFound ==
  ASSUME NEW said, AllTold(said), NEW path, NEW text, OneText(said, path, text)
  PROVE  TextAt(said, path) = text
  <1>1. Told(path, text) \in said /\ Told(path, text).path = path
    BY DEF OneText, Told
  <1> DEFINE found == CHOOSE value \in said : value.path = path
  <1>2. found \in said /\ found.path = path
    BY <1>1
  <1> HIDE DEF found
  <1>3. found = Told(path, found.text)
    BY <1>2 DEF AllTold
  <1>4. found.text = text
    BY <1>2, <1>3 DEF OneText
  <1> QED
    BY <1>4 DEF found, TextAt

LEMMA FileLists ==
  ASSUME NEW said, AllTold(said), NEW tree, SayTree(said, tree),
         Apart(<<>>, tree), Deserializes(tree), Has(tree, "model_list")
  PROVE  ListsEntries(said, Entries(tree))
  <1> DEFINE entries == Entries(tree)
  <1>1. \A k, text : Told(NamePath(k), text) \in said
                       <=> k \in DOMAIN entries /\ text = NameOf(entries[k])
    <2> SUFFICES ASSUME NEW k, NEW text
                 PROVE  Told(NamePath(k), text) \in said
                          <=> k \in DOMAIN entries /\ text = NameOf(entries[k])
      OBVIOUS
    <2>0. IsSeq(NamePath(k)) /\ Len(NamePath(k)) = 3
      BY PathItems
    <2>1. Told(NamePath(k), text) \in said <=> Says(tree, NamePath(k), 0, 3, text)
      BY <2>0 DEF SayTree
    <2>2. SaysOf(tree, NamePath(k), 3, entries, k, text, NameOf(entries[k]))
      BY EntrySays
    <2> QED
      BY <2>1, <2>2 DEF SaysOf
  <1>2. \A k, text : Told(ModelPath(k), text) \in said
                       <=> k \in DOMAIN entries /\ text = ModelOf(entries[k])
    <2> SUFFICES ASSUME NEW k, NEW text
                 PROVE  Told(ModelPath(k), text) \in said
                          <=> k \in DOMAIN entries /\ text = ModelOf(entries[k])
      OBVIOUS
    <2>0. IsSeq(ModelPath(k)) /\ Len(ModelPath(k)) = 4
      BY PathItems
    <2>1. Told(ModelPath(k), text) \in said <=> Says(tree, ModelPath(k), 0, 4, text)
      BY <2>0 DEF SayTree
    <2>2. SaysOf(tree, ModelPath(k), 4, entries, k, text, ModelOf(entries[k]))
      BY EntrySays
    <2> QED
      BY <2>1, <2>2 DEF SaysOf
  <1> HIDE DEF entries
  <1>3. ASSUME NEW k \in Listed(said) PROVE k \in DOMAIN entries
    <2>1. PICK v \in said : v.path = NamePath(v.path[2][2]) /\ k = v.path[2][2]
      BY <1>3 DEF Listed
    <2>2. v = Told(NamePath(k), v.text)
      BY <2>1 DEF AllTold
    <2> QED
      BY <1>1, <2>1, <2>2
  <1>4. ASSUME NEW k \in DOMAIN entries PROVE k \in Listed(said)
    <2> DEFINE v == Told(NamePath(k), NameOf(entries[k]))
    <2>1. v \in said /\ v.path = NamePath(k)
      BY <1>1 DEF Told
    <2> HIDE DEF v
    <2>2. v.path[2][2] = k /\ Len(v.path) = 3
      BY <2>1, PathItems
    <2>3. v \in {w \in said : Len(w.path) = 3 /\ w.path = NamePath(w.path[2][2])}
      BY <2>1, <2>2
    <2> QED
      BY <2>2, <2>3 DEF Listed
  <1>5. ASSUME NEW k \in DOMAIN entries
        PROVE  /\ TextAt(said, NamePath(k)) = NameOf(entries[k])
               /\ TextAt(said, ModelPath(k)) = ModelOf(entries[k])
    <2>1. OneText(said, NamePath(k), NameOf(entries[k]))
      BY <1>1, <1>5 DEF OneText
    <2>2. OneText(said, ModelPath(k), ModelOf(entries[k]))
      BY <1>2, <1>5 DEF OneText
    <2> QED
      BY <2>1, <2>2, TextFound
  <1> QED
    BY <1>3, <1>4, <1>5 DEF ListsEntries, entries

----------------------------------------------------------------------------
(***************************************************************************)
(* Words in the order of their numbers, one more at a time.                *)
(***************************************************************************)
LEMMA NoneInOrder ==
  ASSUME NEW shown, DOMAIN shown = {}, NEW words
  PROVE  InOrder(shown, words, {})
  <1> DEFINE at == [i \in {} |-> 0]
  <1>1. at \in [DOMAIN shown -> {}] /\ DOMAIN at = {}
    OBVIOUS
  <1> HIDE DEF at
  <1>2. {} = {at[i] : i \in DOMAIN at}
    BY <1>1
  <1> QED
    BY <1>1, <1>2 DEF InOrder

LEMMA InOrderMore ==
  ASSUME NEW shown, NEW l \in Nat, DOMAIN shown = 1 .. l,
         NEW words, NEW m \in Nat, NEW numbers, numbers \subseteq 1 .. m,
         InOrder(shown, words, numbers),
         NEW more, DOMAIN more = 1 .. l + 1,
         \A i \in 1 .. l : more[i] = shown[i],
         more[l + 1] = words[m + 1]
  PROVE  InOrder(more, words, numbers \cup {m + 1})
  <1>1. PICK at \in [1 .. l -> numbers] :
          /\ numbers = {at[i] : i \in DOMAIN at}
          /\ \A i, j \in DOMAIN at : i < j => at[i] < at[j]
          /\ \A i \in DOMAIN at : shown[i] = words[at[i]]
    BY DEF InOrder
  <1> DEFINE all == numbers \cup {m + 1}
             next == [i \in 1 .. l + 1 |-> IF i \in 1 .. l THEN at[i] ELSE m + 1]
  <1>0. \A n \in 1 .. m : n \in Nat /\ n < m + 1
    OBVIOUS
  <1>2. /\ DOMAIN at = 1 .. l /\ l + 1 \notin 1 .. l
        /\ 1 .. l + 1 = (1 .. l) \cup {l + 1}
        /\ \A i \in 1 .. l : at[i] \in numbers /\ at[i] \in Nat /\ at[i] < m + 1
    <2>1. DOMAIN at = 1 .. l /\ \A i \in 1 .. l : at[i] \in numbers
      OBVIOUS
    <2>2. \A i \in 1 .. l : at[i] \in Nat /\ at[i] < m + 1
      BY <1>0, <2>1
    <2>3. l + 1 \notin 1 .. l /\ 1 .. l + 1 = (1 .. l) \cup {l + 1}
      OBVIOUS
    <2> QED
      BY <2>1, <2>2, <2>3
  <1>3. next \in [1 .. l + 1 -> all]
    BY <1>1, <1>2
  <1>4. /\ DOMAIN next = 1 .. l + 1
        /\ \A i \in 1 .. l : next[i] = at[i]
        /\ next[l + 1] = m + 1
    BY <1>2
  <1> HIDE DEF next
  <1>5. all = {next[i] : i \in DOMAIN next}
    <2>1. ASSUME NEW n \in numbers PROVE \E i \in DOMAIN next : next[i] = n
      <3>1. PICK i \in 1 .. l : at[i] = n
        BY <1>1, <1>2
      <3> QED
        BY <1>2, <1>4, <3>1
    <2>2. \E i \in DOMAIN next : next[i] = m + 1
      BY <1>2, <1>4
    <2>3. \A i \in DOMAIN next : next[i] \in all
      BY <1>3, <1>4
    <2> QED
      BY <2>1, <2>2, <2>3
  <1>6. ASSUME NEW i \in DOMAIN next, NEW j \in DOMAIN next, i < j PROVE next[i] < next[j]
    <2>1. i \in 1 .. l
      BY <1>4, <1>6
    <2>2. CASE j \in 1 .. l
      BY <1>1, <1>2, <1>4, <1>6, <2>1, <2>2
    <2>3. CASE j = l + 1
      BY <1>2, <1>4, <2>1, <2>3
    <2> QED
      BY <1>2, <1>4, <2>2, <2>3
  <1>7. \A i \in DOMAIN next : more[i] = words[next[i]]
    BY <1>1, <1>2, <1>4
  <1> HIDE DEF all
  <1>8. InOrder(more, words, all)
    BY <1>3, <1>5, <1>6, <1>7 DEF InOrder
  <1> QED
    BY <1>8 DEF all

----------------------------------------------------------------------------
(***************************************************************************)
(* The routes by their names: a name that is new comes last.               *)
(***************************************************************************)
RouteNames(routes) == [r \in DOMAIN routes |-> routes[r].model_name]

NamesStay(next, routes) ==
  DOMAIN next = DOMAIN routes /\ \A i \in DOMAIN routes : next[i].model_name = routes[i].model_name

NameAdded(next, routes, name) ==
  /\ DOMAIN next = 1 .. Len(routes) + 1
  /\ \A i \in 1 .. Len(routes) : next[i].model_name = routes[i].model_name
  /\ next[Len(routes) + 1].model_name = name

LEMMA GroupNames ==
  ASSUME NEW routes, PlainRoutes(routes), NEW name, NEW target
  PROVE  /\ RouteAt(routes, name) # {} => NamesStay(Group(routes, name, target), routes)
         /\ RouteAt(routes, name) = {} => NameAdded(Group(routes, name, target), routes, name)
  <1>0. IsSeq(routes)
    BY DEF PlainRoutes
  <1>1. ASSUME RouteAt(routes, name) # {} PROVE NamesStay(Group(routes, name, target), routes)
    <2> DEFINE at == Min(RouteAt(routes, name))
               route == [routes[at] EXCEPT !.targets = Append(@, target)]
               next == [routes EXCEPT ![at] = route]
    <2>1. at \in DOMAIN routes
      BY <1>0, <1>1, FirstRoute
    <2>2. Group(routes, name, target) = next
      BY <1>1 DEF Group
    <2> HIDE DEF at
    <2>3. routes[at] = [field \in RouteFields |-> routes[at][field]]
      BY <2>1 DEF PlainRoutes
    <2>4. route.model_name = routes[at].model_name
      BY <2>3 DEF RouteFields
    <2> HIDE DEF route
    <2>5. DOMAIN next = DOMAIN routes /\ next[at] = route
          /\ \A i \in DOMAIN routes : i # at => next[i] = routes[i]
      BY <1>0, <2>1, ExceptAny
    <2> HIDE DEF next
    <2> QED
      BY <2>2, <2>4, <2>5 DEF NamesStay
  <1>2. ASSUME RouteAt(routes, name) = {} PROVE NameAdded(Group(routes, name, target), routes, name)
    <2> DEFINE route == [model_name |-> name, targets |-> <<target>>]
               next == Append(routes, route)
    <2>1. Group(routes, name, target) = next
      BY <1>2 DEF Group
    <2>2. route.model_name = name
      OBVIOUS
    <2> HIDE DEF route
    <2>3. /\ DOMAIN next = 1 .. Len(routes) + 1
          /\ \A i \in 1 .. Len(routes) : next[i] = routes[i]
          /\ next[Len(routes) + 1] = route
      BY <1>0, AppendAny
    <2> HIDE DEF next
    <2> QED
      BY <2>1, <2>2, <2>3 DEF NameAdded
  <1> QED
    BY <1>1, <1>2

----------------------------------------------------------------------------
(***************************************************************************)
(* The loop over the entries: after i of them.                             *)
(***************************************************************************)
FirstOf(names, i) == {k \in 1 .. i : \A j \in 1 .. i : j < k => names[j] # names[k]}
BearingOf(names, i, name) == {k \in 1 .. i : names[k] = name}
ModelsOf(targets) == [t \in DOMAIN targets |-> targets[t].model]

Grouped(routes, names, models, i) ==
  /\ PlainRoutes(routes)
  /\ \A name : RouteAt(routes, name) = {} <=> BearingOf(names, i, name) = {}
  /\ InOrder(RouteNames(routes), names, FirstOf(names, i))
  /\ \A name : /\ IsSeq(GetRoute(routes, name))
               /\ InOrder(ModelsOf(GetRoute(routes, name)), models, BearingOf(names, i, name))

LEMMA NothingGrouped ==
  ASSUME NEW names, NEW models
  PROVE  Grouped(<<>>, names, models, 0)
  <1>1. IsSeq(<<>>) /\ DOMAIN <<>> = {} /\ 1 .. 0 = {}
    BY EmptyIsSeq
  <1>2. \A name : RouteAt(<<>>, name) = {} /\ BearingOf(names, 0, name) = {}
    BY <1>1 DEF RouteAt, BearingOf
  <1>3. \A name : GetRoute(<<>>, name) = <<>>
    BY <1>2 DEF GetRoute
  <1>4. FirstOf(names, 0) = {}
    BY <1>1 DEF FirstOf
  <1>5. DOMAIN RouteNames(<<>>) = {} /\ DOMAIN ModelsOf(<<>>) = {}
    BY <1>1 DEF RouteNames, ModelsOf
  <1>6. InOrder(RouteNames(<<>>), names, {}) /\ InOrder(ModelsOf(<<>>), models, {})
    BY <1>5, NoneInOrder
  <1>7. PlainRoutes(<<>>)
    BY <1>1 DEF PlainRoutes
  <1> QED
    BY <1>1, <1>2, <1>3, <1>4, <1>6, <1>7 DEF Grouped

\* One number more.
LEMMA NumbersMore ==
  ASSUME NEW names, NEW i \in Nat
  PROVE  /\ BearingOf(names, i, names[i + 1]) # {} => FirstOf(names, i + 1) = FirstOf(names, i)
         /\ BearingOf(names, i, names[i + 1]) = {}
              => FirstOf(names, i + 1) = FirstOf(names, i) \cup {i + 1}
         /\ BearingOf(names, i + 1, names[i + 1]) = BearingOf(names, i, names[i + 1]) \cup {i + 1}
         /\ \A name : name # names[i + 1] => BearingOf(names, i + 1, name) = BearingOf(names, i, name)
         /\ FirstOf(names, i) \subseteq 1 .. i
         /\ \A name : BearingOf(names, i, name) \subseteq 1 .. i
  <1>1. /\ 1 .. i + 1 = (1 .. i) \cup {i + 1}
        /\ i + 1 \notin 1 .. i
        /\ \A k \in 1 .. i : k < i + 1 /\ ~(i + 1 < k)
        /\ ~(i + 1 < i + 1)
    OBVIOUS
  <1>2. \A k \in 1 .. i : k \in FirstOf(names, i + 1) <=> k \in FirstOf(names, i)
    BY <1>1 DEF FirstOf
  <1>3. i + 1 \in FirstOf(names, i + 1) <=> BearingOf(names, i, names[i + 1]) = {}
    BY <1>1 DEF FirstOf, BearingOf
  <1>4. FirstOf(names, i + 1) \subseteq 1 .. i + 1 /\ FirstOf(names, i) \subseteq 1 .. i
    BY DEF FirstOf
  <1>5. /\ BearingOf(names, i, names[i + 1]) # {} => FirstOf(names, i + 1) = FirstOf(names, i)
        /\ BearingOf(names, i, names[i + 1]) = {}
             => FirstOf(names, i + 1) = FirstOf(names, i) \cup {i + 1}
    BY <1>1, <1>2, <1>3, <1>4
  <1>6. /\ BearingOf(names, i + 1, names[i + 1]) = BearingOf(names, i, names[i + 1]) \cup {i + 1}
        /\ \A name : name # names[i + 1] => BearingOf(names, i + 1, name) = BearingOf(names, i, name)
        /\ \A name : BearingOf(names, i, name) \subseteq 1 .. i
    BY <1>1 DEF BearingOf
  <1> QED
    BY <1>4, <1>5, <1>6

\* A target more is its model more.
LEMMA ModelsMore ==
  ASSUME NEW targets, IsSeq(targets), NEW target,
         NEW models, NEW m \in Nat, models[m + 1] = target.model,
         NEW numbers, numbers \subseteq 1 .. m, InOrder(ModelsOf(targets), models, numbers)
  PROVE  /\ IsSeq(Append(targets, target))
         /\ InOrder(ModelsOf(Append(targets, target)), models, numbers \cup {m + 1})
  <1> DEFINE l == Len(targets)
             all == Append(targets, target)
             shown == ModelsOf(targets)
             more == ModelsOf(all)
  <1>1. /\ IsSeq(all)
        /\ l \in Nat /\ DOMAIN targets = 1 .. l
        /\ DOMAIN all = 1 .. l + 1
        /\ \A t \in 1 .. l : all[t] = targets[t]
        /\ all[l + 1] = target
    BY AppendAny
  <1> HIDE DEF all, l
  <1>2. l + 1 \in 1 .. l + 1 /\ \A t \in 1 .. l : t \in 1 .. l + 1
    BY <1>1
  <1>3. /\ DOMAIN shown = 1 .. l /\ DOMAIN more = 1 .. l + 1
        /\ \A t \in 1 .. l : more[t] = shown[t]
        /\ more[l + 1] = models[m + 1]
    BY <1>1, <1>2 DEF ModelsOf
  <1> HIDE DEF shown, more
  <1>4. InOrder(shown, models, numbers)
    BY DEF shown
  <1>5. InOrder(more, models, numbers \cup {m + 1})
    BY <1>1, <1>3, <1>4, InOrderMore
  <1> QED
    BY <1>1, <1>5 DEF all, more

\* A name more.
LEMMA NamesMore ==
  ASSUME NEW routes, IsSeq(routes), NEW next, NEW names, NEW m \in Nat,
         NameAdded(next, routes, names[m + 1]),
         NEW numbers, numbers \subseteq 1 .. m, InOrder(RouteNames(routes), names, numbers)
  PROVE  InOrder(RouteNames(next), names, numbers \cup {m + 1})
  <1> DEFINE l == Len(routes)
             shown == RouteNames(routes)
             more == RouteNames(next)
  <1>1. l \in Nat /\ DOMAIN routes = 1 .. l
    BY DEF IsSeq
  <1>2. /\ DOMAIN next = 1 .. l + 1
        /\ \A t \in 1 .. l : next[t].model_name = routes[t].model_name
        /\ next[l + 1].model_name = names[m + 1]
    BY DEF NameAdded
  <1> HIDE DEF l
  <1>3. l + 1 \in 1 .. l + 1 /\ \A t \in 1 .. l : t \in 1 .. l + 1
    BY <1>1
  <1>4. /\ DOMAIN shown = 1 .. l /\ DOMAIN more = 1 .. l + 1
        /\ \A t \in 1 .. l : more[t] = shown[t]
        /\ more[l + 1] = names[m + 1]
    BY <1>1, <1>2, <1>3 DEF RouteNames
  <1> HIDE DEF shown, more
  <1>5. InOrder(shown, names, numbers)
    BY DEF shown
  <1>6. InOrder(more, names, numbers \cup {m + 1})
    BY <1>1, <1>4, <1>5, InOrderMore
  <1> QED
    BY <1>6 DEF more

\* An entry more.
LEMMA GroupedMore ==
  ASSUME NEW routes, NEW names, NEW models, NEW i \in Nat, Grouped(routes, names, models, i),
         NEW target, models[i + 1] = target.model
  PROVE  Grouped(Group(routes, names[i + 1], target), names, models, i + 1)
  <1> DEFINE name == names[i + 1]
             next == Group(routes, name, target)
  <1>1. PlainRoutes(routes) /\ IsSeq(routes)
    BY DEF Grouped, PlainRoutes
  <1>2. /\ PlainRoutes(next)
        /\ GetRoute(next, name) = Append(GetRoute(routes, name), target)
        /\ \A other : other # name => GetRoute(next, other) = GetRoute(routes, other)
    BY <1>1, GroupAdds
  <1>3. /\ RouteAt(routes, name) # {} => NamesStay(next, routes)
        /\ RouteAt(routes, name) = {} => NameAdded(next, routes, name)
    BY <1>1, GroupNames
  <1> HIDE DEF next
  <1>4. /\ BearingOf(names, i, name) # {} => FirstOf(names, i + 1) = FirstOf(names, i)
        /\ BearingOf(names, i, name) = {} => FirstOf(names, i + 1) = FirstOf(names, i) \cup {i + 1}
        /\ BearingOf(names, i + 1, name) = BearingOf(names, i, name) \cup {i + 1}
        /\ \A other : other # name => BearingOf(names, i + 1, other) = BearingOf(names, i, other)
        /\ FirstOf(names, i) \subseteq 1 .. i
        /\ \A other : BearingOf(names, i, other) \subseteq 1 .. i
    BY NumbersMore
  <1>5. RouteAt(routes, name) = {} <=> BearingOf(names, i, name) = {}
    BY DEF Grouped
  <1>6. InOrder(RouteNames(routes), names, FirstOf(names, i))
    BY DEF Grouped
  <1>7. InOrder(RouteNames(next), names, FirstOf(names, i + 1))
    <2>1. CASE RouteAt(routes, name) # {}
      <3>1. NamesStay(next, routes)
        BY <1>3, <2>1
      <3>2. RouteNames(next) = RouteNames(routes)
        BY <3>1 DEF NamesStay, RouteNames
      <3> QED
        BY <1>4, <1>5, <1>6, <2>1, <3>2
    <2>2. CASE RouteAt(routes, name) = {}
      <3>1. InOrder(RouteNames(next), names, FirstOf(names, i) \cup {i + 1})
        BY <1>1, <1>3, <1>4, <1>6, <2>2, NamesMore
      <3> QED
        BY <1>4, <1>5, <2>2, <3>1
    <2> QED
      BY <2>1, <2>2
  <1>8. \A other : RouteAt(next, other) = {} <=> BearingOf(names, i + 1, other) = {}
    <2> SUFFICES ASSUME NEW other
                 PROVE  RouteAt(next, other) = {} <=> BearingOf(names, i + 1, other) = {}
      OBVIOUS
    <2>1. RouteAt(routes, other) = {} <=> BearingOf(names, i, other) = {}
      BY DEF Grouped
    <2>2. CASE RouteAt(routes, name) # {}
      <3>1. RouteAt(next, other) = RouteAt(routes, other)
        BY <1>3, <2>2 DEF NamesStay, RouteAt
      <3> QED
        BY <1>4, <1>5, <2>1, <2>2, <3>1
    <2>3. CASE RouteAt(routes, name) = {}
      <3>1. Len(routes) \in Nat /\ DOMAIN routes = 1 .. Len(routes)
        BY <1>1 DEF IsSeq
      <3>2. /\ DOMAIN next = 1 .. Len(routes) + 1
            /\ \A r \in 1 .. Len(routes) : next[r].model_name = routes[r].model_name
            /\ next[Len(routes) + 1].model_name = name
        BY <1>3, <2>3 DEF NameAdded
      <3>3. Len(routes) + 1 \in DOMAIN next /\ \A r \in DOMAIN next : r \in DOMAIN routes \/ r = Len(routes) + 1
        BY <3>1, <3>2
      <3>4. CASE other = name
        <4>1. Len(routes) + 1 \in RouteAt(next, other)
          BY <3>2, <3>3, <3>4 DEF RouteAt
        <4> QED
          BY <1>4, <3>4, <4>1
      <3>5. CASE other # name
        <4>1. RouteAt(next, other) = RouteAt(routes, other)
          BY <3>1, <3>2, <3>3, <3>5 DEF RouteAt
        <4> QED
          BY <1>4, <2>1, <3>5, <4>1
      <3> QED
        BY <3>4, <3>5
    <2> QED
      BY <2>2, <2>3
  <1>9. ASSUME NEW other
        PROVE  /\ IsSeq(GetRoute(next, other))
               /\ InOrder(ModelsOf(GetRoute(next, other)), models, BearingOf(names, i + 1, other))
    <2>1. /\ IsSeq(GetRoute(routes, other))
          /\ InOrder(ModelsOf(GetRoute(routes, other)), models, BearingOf(names, i, other))
      BY DEF Grouped
    <2>2. CASE other # name
      BY <1>2, <1>4, <2>1, <2>2
    <2>3. CASE other = name
      <3>1. BearingOf(names, i, other) \subseteq 1 .. i
        BY <1>4
      <3>2. /\ IsSeq(Append(GetRoute(routes, other), target))
            /\ InOrder(ModelsOf(Append(GetRoute(routes, other), target)), models,
                       BearingOf(names, i, other) \cup {i + 1})
        BY <2>1, <3>1, ModelsMore
      <3> QED
        BY <1>2, <1>4, <2>3, <3>2
    <2> QED
      BY <2>2, <2>3
  <1>10. Grouped(next, names, models, i + 1)
    BY <1>2, <1>7, <1>8, <1>9 DEF Grouped
  <1> QED
    BY <1>10 DEF next

\* The routes of a tree are in the order of its entries.
EntryNames(entries) == [k \in DOMAIN entries |-> NameOf(entries[k])]
EntryModels(entries) == [k \in DOMAIN entries |-> ModelOf(entries[k])]

LEMMA RoutesGrouped ==
  ASSUME NEW tree, IsSeq(Entries(tree))
  PROVE  Grouped(Routes(tree), EntryNames(Entries(tree)), EntryModels(Entries(tree)), Len(Entries(tree)))
  <1> DEFINE entries == Entries(tree)
             n == Len(entries)
             names == EntryNames(entries)
             models == EntryModels(entries)
  <1>1. n \in Nat /\ DOMAIN entries = 1 .. n
    BY SameLength DEF IsSeq
  <1>2. Routes(tree) = Routed!Fold(tree, <<>>, entries)
    BY RoutesAreFolded
  <1> HIDE DEF entries, n
  <1>3. PICK f : Routed!Trace(tree, <<>>, entries, n, f) /\ Routed!Fold(tree, <<>>, entries) = f[n]
    BY <1>1, Routed!FoldTrace
  <1>4. \A i \in 1 .. n : names[i] = NameOf(entries[i]) /\ models[i] = ModelOf(entries[i])
    BY <1>1 DEF EntryNames, EntryModels
  <1> HIDE DEF names, models
  <1> DEFINE T == {i \in Nat : i <= n => Grouped(f[i], names, models, i)}
  <1>5. 0 \in T
    BY <1>3, NothingGrouped DEF Routed!Trace
  <1>6. ASSUME NEW i \in Nat, i \in T PROVE i + 1 \in T
    <2> SUFFICES ASSUME i + 1 <= n PROVE Grouped(f[i + 1], names, models, i + 1)
      OBVIOUS
    <2>1. i + 1 \in 1 .. n /\ (i + 1) - 1 = i /\ Grouped(f[i], names, models, i)
      BY <1>1, <1>6
    <2> DEFINE entry == entries[i + 1]
               target == Target(entry, Settings(tree))
    <2>2. f[i + 1] = RouteStep(tree, f[i], entry)
      BY <1>3, <2>1 DEF Routed!Trace
    <2>3. names[i + 1] = NameOf(entry) /\ models[i + 1] = ModelOf(entry)
      BY <1>4, <2>1
    <2>4. target.model = ModelOf(entry)
      BY DEF Target, ModelOf
    <2>5. f[i + 1] = Group(f[i], names[i + 1], target)
      BY <2>2, <2>3 DEF RouteStep, NameOf
    <2> HIDE DEF entry, target
    <2>6. Grouped(Group(f[i], names[i + 1], target), names, models, i + 1)
      BY <2>1, <2>3, <2>4, GroupedMore
    <2> QED
      BY <2>5, <2>6
  <1> HIDE DEF T
  <1>7. Nat \subseteq T
    BY <1>5, <1>6, Routed!SetInduction
  <1>8. Grouped(f[n], names, models, n)
    BY <1>1, <1>7 DEF T
  <1> QED
    BY <1>2, <1>3, <1>8 DEF names, models, entries, n

\* They are what the file says.
LEMMA RoutesFollow ==
  ASSUME NEW said, AllTold(said), NEW tree, SayTree(said, tree),
         Apart(<<>>, tree), Deep(tree), Deserializes(tree), NEW noAuth, Builds(tree, noAuth)
  PROVE  FollowsFile(Routes(tree), said)
  <1> DEFINE entries == Entries(tree)
             n == Len(entries)
             routes == Routes(tree)
             listed == Listed(said)
             names == [k \in listed |-> TextAt(said, NamePath(k))]
             models == [k \in listed |-> TextAt(said, ModelPath(k))]
  <1>1. tree.node = "map" /\ Has(tree, "model_list")
    BY DEF Deserializes, Mapping, Builds, Entries
  <1>2. IsSeq(entries)
    BY <1>1, EntriesAreSeq
  <1>3. n \in Nat /\ DOMAIN entries = 1 .. n
    BY <1>2 DEF IsSeq
  <1>4. ListsEntries(said, entries)
    BY <1>1, FileLists
  <1>5. Grouped(routes, EntryNames(entries), EntryModels(entries), n)
    BY <1>2, RoutesGrouped
  <1> HIDE DEF entries, n, routes
  <1>6. listed = 1 .. n
    BY <1>3, <1>4 DEF ListsEntries
  <1> HIDE DEF listed
  <1>7. names = EntryNames(entries) /\ models = EntryModels(entries)
    BY <1>3, <1>4, <1>6 DEF ListsEntries, EntryNames, EntryModels
  <1>8. DOMAIN names = 1 .. n
    BY <1>6
  <1> HIDE DEF names, models
  <1>9. Cardinality(listed) = n
    BY <1>3, <1>6, FS_Interval
  <1>10. Firsts(names) = FirstOf(names, n)
    BY <1>8 DEF Firsts, FirstOf
  <1>11. \A name : Bearing(names, name) = BearingOf(names, n, name)
    BY <1>8 DEF Bearing, BearingOf
  <1>12. InOrder(RouteNames(routes), names, Firsts(names))
    BY <1>5, <1>7, <1>10 DEF Grouped
  <1>13. \A name : InOrder(ModelsOf(GetRoute(routes, name)), models, Bearing(names, name))
    BY <1>5, <1>7, <1>11 DEF Grouped
  <1>14. InOrder([r \in DOMAIN routes |-> routes[r].model_name], names, Firsts(names))
    BY <1>12, Zenon DEF RouteNames
  <1>15. ASSUME NEW k \in listed
         PROVE  LET targets == GetRoute(routes, names[k])
                IN InOrder([t \in DOMAIN targets |-> targets[t].model], models, Bearing(names, names[k]))
    BY <1>13, Zenon DEF ModelsOf
  <1>16. listed = 1 .. Cardinality(listed)
    BY <1>6, <1>9
  <1> QED
    BY <1>14, <1>15, <1>16, Zenon DEF FollowsFile, names, models, listed, routes

----------------------------------------------------------------------------
(***************************************************************************)
(* The inductive invariant: until its tree is built, what is read of the   *)
(* file is in the tree and in the collections that are open.               *)
(***************************************************************************)
FileInv ==
  /\ stage \in {"arguments", "file", "parse", "deserialize"} =>
       IsFile(file) /\ ReadInv(file, events, place, open, root)
  /\ stage = "deserialize" => place = "read" /\ Deserializes(root)
  /\ RoutesFaithful

LEMMA InitFileInv == Init => FileInv
  <1> SUFFICES ASSUME Init PROVE FileInv
    OBVIOUS
  <1>1. file \in Documents /\ events = file /\ ReaderInit /\ stage = "arguments"
    BY DEF Init, StartInit
  <1>2. IsFile(file)
    BY <1>1, DocumentsAssumption, Zenon DEF IsFile, IsSeq, EndsLast
  <1>3. ReadInv(file, events, place, open, root)
    BY <1>1, <1>2, InitReadInv
  <1> QED
    BY <1>1, <1>2, <1>3 DEF FileInv, RoutesFaithful

\* What the file says is what its tree says, once it is read.
LEMMA ReadSays ==
  ASSUME ReadInv(file, events, place, open, root), place = "read"
  PROVE  /\ AllTold(Heard(file).said)
         /\ SayTree(Heard(file).said, root)
         /\ Apart(<<>>, root)
  <1>1. Hears(Heard(file), place, open, root) /\ Apart(open, root)
    BY DEF ReadInv
  <1>2. AllTold(Heard(file).said) /\ SayTree(Heard(file).said, root)
    BY <1>1 DEF Hears
  <1> QED
    BY <1>1, <1>2, EmptyIsSeq DEF Apart

LEMMA FileInvKept == BuildInv /\ FileInv /\ [Next]_vars => FileInv'
  <1> SUFFICES ASSUME BuildInv, FileInv, [Next]_vars PROVE FileInv'
    OBVIOUS
  <1>1. ASSUME NEW with, Exit(with) PROVE FileInv'
    BY <1>1 DEF Exit, FileInv, RoutesFaithful
  <1>2. CASE UNCHANGED startVars
    BY <1>2 DEF startVars, readerVars, FileInv, RoutesFaithful
  <1>3. CASE Serve
    BY <1>3 DEF Serve, FileInv, RoutesFaithful
  <1>4. CASE ParseArguments \/ ReadFile
    BY <1>4 DEF ParseArguments, ReadFile, Goto, readerVars, FileInv, RoutesFaithful
  <1>5. CASE Parse
    <2>1. IsFile(file) /\ ReadInv(file, events, place, open, root) /\ Trees /\ ReaderNext
      BY <1>5 DEF Parse, FileInv, BuildInv
    <2>2. ReadInv(file, events', place', open', root')
      BY <2>1, ReadInvKept
    <2>3. stage = "parse" /\ stage' = stage /\ file' = file
      BY <1>5 DEF Parse
    <2> QED
      BY <2>1, <2>2, <2>3 DEF FileInv, RoutesFaithful
  <1>6. CASE Deserialize
    BY <1>6 DEF Deserialize, Goto, readerVars, FileInv, RoutesFaithful
  <1>7. CASE Build
    <2>1. /\ ReadInv(file, events, place, open, root) /\ place = "read"
          /\ Deserializes(root) /\ Deep(root) /\ Builds(root, cli.no_auth)
      BY <1>7 DEF Build, FileInv, BuildInv, Trees
    <2>2. FollowsFile(Routes(root), Heard(file).said)
      BY <2>1, ReadSays, RoutesFollow
    <2>3. config'.routes = Routes(root) /\ file' = file /\ stage' = "built"
      BY <1>7 DEF Build, RuntimeConfig, Goto
    <2>4. RoutesFaithful'
      BY <2>2, <2>3 DEF RoutesFaithful
    <2> QED
      BY <2>3, <2>4 DEF FileInv
  <1> QED
    BY <1>1, <1>2, <1>3, <1>4, <1>5, <1>6, <1>7
    DEF Next, vars, StartNext, RefuseArguments, ReadFileFails, ParseFails, DeserializeFails,
        BuildFails, Validate, ServeFails

(***************************************************************************)
(* The routes are what the file says, to the word and in its order,        *)
(* whatever the file: between the scanner's events and the table that is   *)
(* served no entry is lost, is added, changes its name or its model, or    *)
(* moves (parse_node, deserialize_raw_config, build_runtime_config,        *)
(* RuntimeConfig::get_route).                                              *)
(***************************************************************************)
THEOREM RoutesAreFaithful == Spec => []RoutesFaithful
  <1>1. BuildInv /\ FileInv /\ [Next]_vars => (BuildInv /\ FileInv)'
    BY BuildInvKept, FileInvKept
  <1>2. Init => BuildInv /\ FileInv
    BY InitBuildInv, InitFileInv
  <1>3. FileInv => RoutesFaithful
    BY DEF FileInv
  <1> QED
    BY <1>1, <1>2, <1>3, PTL DEF Spec

----------------------------------------------------------------------------
(***************************************************************************)
(* Answers: the calls of a body, as the gateway gives them out.            *)
(***************************************************************************)
TakeStep(none, calls, part) == IF part.part = "call" THEN Append(calls, part) ELSE calls
Taken == INSTANCE FoldProofs WITH Step <- TakeStep

NormalStep(none, state, call) ==
  LET keeps == Keeps(state.calls, call.id)
      id    == IF keeps THEN call.id ELSE NextFree(state.next, state.calls)
  IN [calls |-> Append(state.calls, [id |-> id, name |-> call.name, args |-> call.args]),
      next  |-> IF keeps THEN state.next ELSE id + 1]
Normalized == INSTANCE FoldProofs WITH Step <- NormalStep

\* The two loops over the parts of an answer, as folds.
LEMMA CallsAreTaken ==
  ASSUME NEW body
  PROVE  NativeCalls(body) = Taken!Fold({}, <<>>, body.parts)
  BY Zenon DEF NativeCalls, TakeStep, Taken!Fold, Taken!FoldLeft, FoldLeft,
               Taken!MapThenFoldSet, MapThenFoldSet, Max, Taken!Max

LEMMA CallsAreNormalized ==
  ASSUME NEW native, NEW next
  PROVE  NormalizedCalls(native, next)
           = Normalized!Fold({}, [calls |-> <<>>, next |-> next], native)
  BY Zenon DEF NormalizedCalls, NormalStep, Normalized!Fold, Normalized!FoldLeft, FoldLeft,
               Normalized!MapThenFoldSet, MapThenFoldSet, Max, Normalized!Max

\* The calls of a body are among its parts.
LEMMA NativeCallsAmong ==
  ASSUME NEW body, body.parts \in Seq(PartType), NEW S,
         \A i \in DOMAIN body.parts : body.parts[i].part = "call" => body.parts[i] \in S
  PROVE  NativeCalls(body) \in Seq(S)
  <1> DEFINE parts == body.parts
  <1>1. Len(parts) \in Nat /\ DOMAIN parts = 1 .. Len(parts)
        /\ \A i \in 1 .. Len(parts) : parts[i].part = "call" => parts[i] \in S
    OBVIOUS
  <1> HIDE DEF parts
  <1>2. \A i \in 1 .. Len(parts) : \A s \in Seq(S) : TakeStep({}, s, parts[i]) \in Seq(S)
    <2> SUFFICES ASSUME NEW i \in 1 .. Len(parts), NEW s \in Seq(S)
                 PROVE  TakeStep({}, s, parts[i]) \in Seq(S)
      OBVIOUS
    <2> DEFINE part == parts[i]
    <2>1. part.part = "call" => part \in S
      BY <1>1
    <2> HIDE DEF part
    <2>2. part.part = "call" => Append(s, part) \in Seq(S)
      BY <2>1, AppendProperties
    <2> QED
      BY <2>2 DEF TakeStep, part
  <1>3. <<>> \in Seq(S)
    BY EmptySeq
  <1>4. Taken!Fold({}, <<>>, parts) \in Seq(S)
    BY <1>1, <1>2, <1>3, Taken!FoldIn
  <1> QED
    BY <1>4, CallsAreTaken DEF parts

\* generated_call_id, of the counter.
LEMMA NextFreeIsFree ==
  ASSUME NEW next \in Ids, NEW calls \in Seq(CallType)
  PROVE  NextFree(next, calls) \in Ids \ UsedIds(calls)
  <1> DEFINE n == Len(calls)
             used == [i \in 1 .. n |-> calls[i].id]
             rest == (next .. next + n) \ UsedIds(calls)
  <1>1. n \in Nat /\ next \in Nat /\ DOMAIN calls = 1 .. n
    BY DEF Ids
  <1>2. \E x \in next .. next + n : \A i \in 1 .. n : used[i] # x
    <2> HIDE DEF used, n
    <2> QED
      BY <1>1, Taken!OneIsFree, ZenonT(30)
  <1>3. rest # {} /\ rest \in SUBSET Nat /\ \A x \in rest : x >= next
    BY <1>1, <1>2 DEF UsedIds
  <1>4. NextFree(next, calls) = Min(rest)
    BY DEF NextFree
  <1> HIDE DEF rest
  <1>5. \E x \in rest : \A y \in rest : x <= y
    BY <1>3, Taken!LeastNat
  <1>6. Min(rest) \in rest
    BY <1>5 DEF Min
  <1> QED
    BY <1>1, <1>3, <1>4, <1>6 DEF rest, Ids

\* Calls that have ids of their own.
OwnIds(calls) ==
  /\ \A k \in DOMAIN calls : calls[k].id \in Ids
  /\ \A j, k \in DOMAIN calls : j # k => calls[j].id # calls[k].id

Normal(native, calls, n) ==
  /\ calls \in Seq(CallType)
  /\ Len(calls) = n
  /\ \A k \in 1 .. n : calls[k].name = native[k].name /\ calls[k].args = native[k].args
  /\ OwnIds(calls)

\* One call more that gets the id it came with or a new one.
LEMMA NormalMore ==
  ASSUME NEW native \in Seq(PartType), NEW n \in Nat, n + 1 \in 1 .. Len(native),
         NEW calls, Normal(native, calls, n),
         NEW id \in Ids \ UsedIds(calls)
  PROVE  LET call == native[n + 1]
         IN Normal(native, Append(calls, [id |-> id, name |-> call.name, args |-> call.args]), n + 1)
  <1> DEFINE call == native[n + 1]
             new == [id |-> id, name |-> call.name, args |-> call.args]
             more == Append(calls, new)
  <1>1. call \in PartType
    OBVIOUS
  <1>2. calls \in Seq(CallType) /\ Len(calls) = n /\ DOMAIN calls = 1 .. n
    BY DEF Normal
  <1> HIDE DEF call
  <1>3. new \in CallType /\ new.id = id /\ new.name = call.name /\ new.args = call.args
    BY <1>1 DEF PartType, CallType
  <1> HIDE DEF new
  <1>4. /\ more \in Seq(CallType) /\ Len(more) = n + 1 /\ DOMAIN more = 1 .. n + 1
        /\ \A k \in 1 .. n : more[k] = calls[k]
        /\ more[n + 1] = new
    BY <1>2, <1>3, AppendProperties
  <1> HIDE DEF more
  <1>5. \A k \in 1 .. n + 1 : more[k].name = native[k].name /\ more[k].args = native[k].args
    <2> SUFFICES ASSUME NEW k \in 1 .. n + 1
                 PROVE  more[k].name = native[k].name /\ more[k].args = native[k].args
      OBVIOUS
    <2>1. CASE k \in 1 .. n
      BY <1>4, <2>1 DEF Normal
    <2>2. CASE k = n + 1
      BY <1>3, <1>4, <2>2 DEF call
    <2> QED
      BY <2>1, <2>2
  <1>6. \A k \in 1 .. n : calls[k].id \in Ids /\ calls[k].id # id
    BY <1>2 DEF Normal, OwnIds, UsedIds
  <1>7. \A k \in 1 .. n + 1 : k \in 1 .. n \/ k = n + 1
    OBVIOUS
  <1>8. \A k \in DOMAIN more : more[k].id \in Ids
    BY <1>3, <1>4, <1>6, <1>7
  <1>9. ASSUME NEW j \in DOMAIN more, NEW k \in DOMAIN more, j # k
        PROVE  more[j].id # more[k].id
    <2>1. CASE j \in 1 .. n /\ k \in 1 .. n
      BY <1>2, <1>4, <1>9, <2>1 DEF Normal, OwnIds
    <2>2. CASE j = n + 1 \/ k = n + 1
      BY <1>3, <1>4, <1>6, <1>7, <1>9, <2>2
    <2> QED
      BY <1>4, <1>7, <2>1, <2>2
  <1>10. Normal(native, more, n + 1)
    BY <1>4, <1>5, <1>8, <1>9 DEF Normal, OwnIds
  <1> QED
    BY <1>10 DEF more, new, call

\* normalize_calls: each call keeps its name and its arguments, and has an id of its own.
LEMMA NormalizedIsNormal ==
  ASSUME NEW native \in Seq(PartType), NEW next \in Ids
  PROVE  /\ NormalizedCalls(native, next).next \in Ids
         /\ Normal(native, NormalizedCalls(native, next).calls, Len(native))
  <1> DEFINE base == [calls |-> <<>>, next |-> next]
             n == Len(native)
             Reached(state, i) == state.next \in Ids /\ Normal(native, state.calls, i)
  <1>1. n \in Nat /\ DOMAIN native = 1 .. n
    OBVIOUS
  <1>2. PICK f : Normalized!Trace({}, base, native, n, f)
                 /\ Normalized!Fold({}, base, native) = f[n]
    <2> HIDE DEF base, n
    <2> QED
      BY <1>1, Normalized!FoldTrace
  <1>3. f[0] = base /\ \A i \in 1 .. n : f[i] = NormalStep({}, f[i - 1], native[i])
    BY <1>2 DEF Normalized!Trace
  <1> HIDE DEF n
  <1> DEFINE T == {i \in Nat : i <= n => Reached(f[i], i)}
  <1>4. 0 \in T
    <2>1. base.next = next /\ base.calls = <<>>
      OBVIOUS
    <2>2. Normal(native, <<>>, 0)
      BY EmptySeq DEF Normal, OwnIds
    <2> QED
      BY <1>3, <2>1, <2>2
  <1>5. ASSUME NEW i \in Nat, i \in T PROVE i + 1 \in T
    <2> SUFFICES ASSUME i + 1 <= n PROVE Reached(f[i + 1], i + 1)
      OBVIOUS
    <2>1. i + 1 \in 1 .. n /\ (i + 1) - 1 = i /\ Reached(f[i], i)
      BY <1>1, <1>5
    <2> DEFINE state == f[i]
               call == native[i + 1]
               keeps == Keeps(state.calls, call.id)
               id == IF keeps THEN call.id ELSE NextFree(state.next, state.calls)
               calls == Append(state.calls, [id |-> id, name |-> call.name, args |-> call.args])
    <2>2. f[i + 1] = [calls |-> calls, next |-> IF keeps THEN state.next ELSE id + 1]
      BY <1>3, <2>1 DEF NormalStep
    <2>3. state.next \in Ids /\ Normal(native, state.calls, i)
      BY <2>1
    <2>4. id \in Ids \ UsedIds(state.calls)
      <3> HIDE DEF state, call
      <3>1. CASE keeps
        BY <3>1 DEF Keeps
      <3>2. CASE ~keeps
        <4>1. NextFree(state.next, state.calls) \in Ids \ UsedIds(state.calls)
          BY <2>3, NextFreeIsFree DEF Normal
        <4> QED
          BY <3>2, <4>1
      <3> QED
        BY <3>1, <3>2
    <2>5. f[i + 1].calls = calls /\ f[i + 1].next = IF keeps THEN state.next ELSE id + 1
      BY <2>2
    <2> HIDE DEF state, keeps, id
    <2>6. Normal(native, calls, i + 1)
      BY <2>1, <2>3, <2>4, NormalMore DEF n
    <2>7. f[i + 1].next \in Ids
      BY <2>3, <2>4, <2>5 DEF Ids
    <2> QED
      BY <2>5, <2>6, <2>7
  <1> HIDE DEF T
  <1>6. Nat \subseteq T
    BY <1>4, <1>5, Normalized!SetInduction
  <1>7. Reached(f[n], n)
    BY <1>1, <1>6 DEF T
  <1> HIDE DEF base
  <1>8. NormalizedCalls(native, next) = f[n]
    BY <1>2, CallsAreNormalized DEF base, n
  <1> QED
    BY <1>7, <1>8 DEF n

GoodCallList(calls) ==
  /\ calls \in Seq(CallType)
  /\ OwnIds(calls)
  /\ \A k \in DOMAIN calls : calls[k].name \in Tools

GoodAnswer(done) ==
  /\ done.next \in Ids
  /\ done.good => done.content \in BOOLEAN /\ GoodCallList(done.calls)

\* A complete answer that is good has calls of declared tools, each under an id of its own.
LEMMA BuiltIsGood ==
  ASSUME NEW choice, NEW content \in BOOLEAN, NEW native \in Seq(PartType), NEW terminal,
         NEW next \in Ids
  PROVE  GoodAnswer(Built(choice, content, native, terminal, next))
  <1> DEFINE normal == NormalizedCalls(native, next + 1)
             finish == FinishReason(terminal, content, normal.calls)
             good == ValidOutcome(choice, content, normal.calls, finish)
             done == Built(choice, content, native, terminal, next)
  <1>1. next + 1 \in Ids
    BY DEF Ids
  <1>2. normal.next \in Ids /\ Normal(native, normal.calls, Len(native))
    BY <1>1, NormalizedIsNormal
  <1>3. CASE \A i \in DOMAIN native : native[i].name \in Tools
    <2>1. done = [good |-> good, content |-> content, calls |-> normal.calls,
                  finish |-> finish, next |-> normal.next]
      BY <1>3 DEF Built
    <2> HIDE DEF normal, finish, good, done
    <2>2. done.next = normal.next /\ done.content = content /\ done.calls = normal.calls
      BY <2>1
    <2>3. GoodCallList(normal.calls)
      BY <1>2, <1>3 DEF GoodCallList, Normal
    <2>4. GoodAnswer(done)
      BY <1>2, <2>2, <2>3 DEF GoodAnswer
    <2> QED
      BY <2>4 DEF done
  <1>4. CASE ~\A i \in DOMAIN native : native[i].name \in Tools
    <2>1. done = [good |-> FALSE, next |-> normal.next]
      BY <1>4 DEF Built
    <2> HIDE DEF normal, done
    <2>2. done.next = normal.next /\ ~done.good
      BY <2>1
    <2>3. GoodAnswer(done)
      BY <1>2, <2>2 DEF GoodAnswer
    <2> QED
      BY <2>3 DEF done
  <1> QED
    BY <1>3, <1>4

\* complete, of each adapter: a good answer has calls with ids of their own.
LEMMA CompletedIsGood ==
  ASSUME NEW provider, NEW choice, NEW body, body.parts \in Seq(PartType), NEW next \in Ids
  PROVE  GoodAnswer(Completed(provider, choice, body, next))
  <1>1. CASE PolicyBlock(provider, body)
    <2>1. Completed(provider, choice, body, next) = Built(choice, FALSE, <<>>, "content_filter", next)
      BY <1>1 DEF Completed
    <2>2. <<>> \in Seq(PartType) /\ FALSE \in BOOLEAN
      BY EmptySeq
    <2>3. \A t : GoodAnswer(Built(choice, FALSE, <<>>, t, next))
      BY <2>2, BuiltIsGood
    <2> QED
      BY <2>1, <2>3, Zenon
  <1>2. CASE ~PolicyBlock(provider, body) /\ Parses(provider, body) /\ OneChoice(provider, body)
    <2>1. Completed(provider, choice, body, next)
            = Built(choice, Content(body), NativeCalls(body), Terminal(provider, body.reason), next)
      BY <1>2 DEF Completed
    <2>2. NativeCalls(body) \in Seq(PartType)
      BY NativeCallsAmong
    <2>3. Content(body) \in BOOLEAN
      BY DEF Content
    <2>4. \A c \in BOOLEAN : \A t : GoodAnswer(Built(choice, c, NativeCalls(body), t, next))
      BY <2>2, BuiltIsGood
    <2> QED
      BY <2>1, <2>3, <2>4, Zenon
  <1>3. CASE ~PolicyBlock(provider, body) /\ ~(Parses(provider, body) /\ OneChoice(provider, body))
    <2> DEFINE done == [good |-> FALSE,
                        next |-> next + (IF provider = "gemini" \/ Parses(provider, body) THEN 1 ELSE 0)]
    <2>1. Completed(provider, choice, body, next) = done
      BY <1>3 DEF Completed
    <2>2. done.next \in {next, next + 1} /\ ~done.good
      BY DEF Ids
    <2> HIDE DEF done
    <2>3. GoodAnswer(done)
      BY <2>2 DEF GoodAnswer, Ids
    <2> QED
      BY <2>1, <2>3
  <1> QED
    BY <1>1, <1>2, <1>3

\* Calls whose arguments are objects.
WholeParts == {part \in PartType : part.args = "object"}
WholeCalls(calls) == \A k \in DOMAIN calls : calls[k].args = "object"

LEMMA BuiltIsWhole ==
  ASSUME NEW choice, NEW content \in BOOLEAN, NEW native \in Seq(WholeParts), NEW terminal,
         NEW next \in Ids
  PROVE  LET done == Built(choice, content, native, terminal, next)
         IN done.good => WholeCalls(done.calls)
  <1> DEFINE normal == NormalizedCalls(native, next + 1)
             finish == FinishReason(terminal, content, normal.calls)
             good == ValidOutcome(choice, content, normal.calls, finish)
             done == Built(choice, content, native, terminal, next)
  <1>1. next + 1 \in Ids
    BY DEF Ids
  <1>2. /\ native \in Seq(PartType) /\ Len(native) \in Nat
        /\ \A k \in 1 .. Len(native) : native[k].args = "object"
    BY DEF WholeParts
  <1>3. Normal(native, normal.calls, Len(native))
    BY <1>1, <1>2, NormalizedIsNormal
  <1> HIDE DEF normal, finish, good
  <1>4. WholeCalls(normal.calls)
    BY <1>2, <1>3 DEF Normal, WholeCalls
  <1>5. CASE \A i \in DOMAIN native : native[i].name \in Tools
    <2>1. done = [good |-> good, content |-> content, calls |-> normal.calls,
                  finish |-> finish, next |-> normal.next]
      BY <1>5 DEF Built, normal, finish, good
    <2> HIDE DEF done
    <2>2. done.calls = normal.calls
      BY <2>1
    <2> QED
      BY <1>4, <2>2 DEF done
  <1>6. CASE ~\A i \in DOMAIN native : native[i].name \in Tools
    <2>1. done = [good |-> FALSE, next |-> normal.next]
      BY <1>6 DEF Built, normal
    <2> HIDE DEF done
    <2>2. ~done.good
      BY <2>1
    <2> QED
      BY <2>2 DEF done
  <1> QED
    BY <1>5, <1>6

\* parse_blocks and parse_parts: a provider that speaks in objects answers in objects.
LEMMA CompletedIsWhole ==
  ASSUME NEW provider \in Translated, NEW choice,
         NEW body, body.parts \in Seq(PartType), NEW next \in Ids
  PROVE  LET done == Completed(provider, choice, body, next)
         IN done.good => WholeCalls(done.calls)
  <1> DEFINE Fine(done) == done.good => WholeCalls(done.calls)
  <1> SUFFICES Fine(Completed(provider, choice, body, next))
    OBVIOUS
  <1>1. ASSUME NEW c \in BOOLEAN, NEW native \in Seq(WholeParts), NEW t
        PROVE  Fine(Built(choice, c, native, t, next))
    BY BuiltIsWhole
  <1> HIDE DEF Fine
  <1>2. CASE PolicyBlock(provider, body)
    <2>1. Completed(provider, choice, body, next) = Built(choice, FALSE, <<>>, "content_filter", next)
      BY <1>2 DEF Completed
    <2>2. <<>> \in Seq(WholeParts) /\ FALSE \in BOOLEAN
      BY EmptySeq
    <2> QED
      BY <1>1, <2>1, <2>2, Zenon
  <1>3. CASE ~PolicyBlock(provider, body) /\ Parses(provider, body) /\ OneChoice(provider, body)
    <2>1. Completed(provider, choice, body, next)
            = Built(choice, Content(body), NativeCalls(body), Terminal(provider, body.reason), next)
      BY <1>3 DEF Completed
    <2>2. \A i \in DOMAIN body.parts : body.parts[i].part = "call" => body.parts[i] \in WholeParts
      BY <1>3 DEF Parses, Objects, Translated, WholeParts
    <2>3. NativeCalls(body) \in Seq(WholeParts)
      BY <2>2, NativeCallsAmong
    <2>4. Content(body) \in BOOLEAN
      BY DEF Content
    <2> QED
      BY <1>1, <2>1, <2>3, <2>4, Zenon
  <1>4. CASE ~PolicyBlock(provider, body) /\ ~(Parses(provider, body) /\ OneChoice(provider, body))
    <2> DEFINE done == [good |-> FALSE,
                        next |-> next + (IF provider = "gemini" \/ Parses(provider, body) THEN 1 ELSE 0)]
    <2>1. Completed(provider, choice, body, next) = done
      BY <1>4 DEF Completed
    <2>2. ~done.good
      OBVIOUS
    <2> HIDE DEF done
    <2> QED
      BY <2>1, <2>2 DEF Fine
  <1> QED
    BY <1>2, <1>3, <1>4

----------------------------------------------------------------------------
(***************************************************************************)
(* Requests: whatever a client changes, messages stay messages.            *)
(***************************************************************************)
Typed(messages) == messages \in Seq(MessageType)

\* A changed conversation is a conversation: one message is another.
LEMMA ReplacedTyped ==
  ASSUME NEW messages, Typed(messages), NEW i \in DOMAIN messages, NEW m \in MessageType
  PROVE  /\ Typed(Replaced(messages, i, m))
         /\ DOMAIN Replaced(messages, i, m) = DOMAIN messages
  <1>1. i \in 1 .. Len(messages)
    BY DEF Typed
  <1>2. [messages EXCEPT ![i] = m] \in Seq(MessageType)
    BY <1>1, ExceptSeq DEF Typed
  <1>3. DOMAIN [messages EXCEPT ![i] = m] = DOMAIN messages
    OBVIOUS
  <1> QED
    BY <1>2, <1>3 DEF Typed, Replaced

LEMMA PartTyped ==
  ASSUME NEW messages, Typed(messages), NEW low \in 1 .. Len(messages) + 1, NEW high \in 0 .. Len(messages)
  PROVE  SubSeq(messages, low, high) \in Seq(MessageType)
  BY SubSeqProperties DEF Typed

\* One is missing.
LEMMA RemovedTyped ==
  ASSUME NEW messages, Typed(messages), NEW i \in DOMAIN messages
  PROVE  Typed(RemoveAt(messages, i))
  <1>1. i \in 1 .. Len(messages) /\ Len(messages) \in Nat
    BY DEF Typed
  <1>2. /\ SubSeq(messages, 1, i - 1) \in Seq(MessageType)
        /\ SubSeq(messages, i + 1, Len(messages)) \in Seq(MessageType)
    BY <1>1, PartTyped
  <1> QED
    BY <1>2, ConcatProperties DEF RemoveAt, Typed

\* One comes twice.
LEMMA RepeatedTyped ==
  ASSUME NEW messages, Typed(messages), NEW i \in DOMAIN messages
  PROVE  Typed(InsertAt(messages, i, messages[i]))
  <1>1. i \in 1 .. Len(messages) /\ Len(messages) \in Nat /\ messages[i] \in MessageType
    BY DEF Typed
  <1>2. /\ SubSeq(messages, 1, i - 1) \in Seq(MessageType)
        /\ SubSeq(messages, i, Len(messages)) \in Seq(MessageType)
        /\ <<messages[i]>> \in Seq(MessageType)
    BY <1>1, PartTyped
  <1>3. SubSeq(messages, 1, i - 1) \o <<messages[i]>> \in Seq(MessageType)
    BY <1>2, ConcatProperties
  <1> QED
    BY <1>2, <1>3, ConcatProperties DEF InsertAt, Typed

LEMMA UserTyped ==
  Message("user", TRUE, <<>>, NoId) \in MessageType
  <1>1. <<>> \in Seq(CallType)
    BY EmptySeq
  <1> QED
    BY <1>1 DEF Message, MessageType

\* Another question comes in the place of the last one.
LEMMA CutTyped ==
  ASSUME NEW messages, Typed(messages), NEW m \in MessageType
  PROVE  Typed(Append(Front(messages), m))
  <1>1. CASE messages = <<>>
    <2>1. Front(messages) = <<>>
      BY <1>1 DEF Front
    <2>2. Front(messages) \in Seq(MessageType)
      BY <2>1, EmptySeq
    <2> QED
      BY <2>2, AppendProperties DEF Typed
  <1>2. CASE messages # <<>>
    <2>1. Len(messages) \in Nat /\ Len(messages) # 0
      BY <1>2, EmptySeq DEF Typed
    <2>2. SubSeq(messages, 1, Len(messages) - 1) \in Seq(MessageType)
      BY <2>1, PartTyped
    <2> QED
      BY <2>2, AppendProperties DEF Typed, Front
  <1> QED
    BY <1>1, <1>2

\* What is done to the first call of a message.
LEMMA SpoiltTyped ==
  ASSUME NEW message \in MessageType, NEW spoilt \in Spoilt(message)
  PROVE  spoilt \in MessageType
  <1>1. CASE spoilt = [message EXCEPT !.sound = FALSE]
    BY <1>1 DEF MessageType
  <1>2. CASE /\ message.calls # <<>>
             /\ spoilt \in {[message EXCEPT !.calls[1].args = "junk"],
                           [message EXCEPT !.calls[1].name = Undeclared],
                           [message EXCEPT !.calls[1].id = EmptyId]}
    <2> DEFINE calls == message.calls
               call == calls[1]
    <2>1. calls \in Seq(CallType)
      BY DEF MessageType
    <2>2. 1 \in 1 .. Len(calls)
      BY <1>2, <2>1, EmptySeq
    <2>3. call \in CallType
      BY <2>1, <2>2
    <2>4. PICK new \in CallType : spoilt = [message EXCEPT !.calls = [calls EXCEPT ![1] = new]]
      <3>1. /\ [call EXCEPT !.args = "junk"] \in CallType
            /\ [call EXCEPT !.name = Undeclared] \in CallType
            /\ [call EXCEPT !.id = EmptyId] \in CallType
        BY <2>3 DEF CallType, Arguments
      <3> QED
        BY <1>2, <3>1
    <2>5. [calls EXCEPT ![1] = new] \in Seq(CallType)
      BY <2>1, <2>2, ExceptSeq
    <2>6. message.role = "assistant"
      BY <1>2 DEF MessageType
    <2> HIDE DEF calls
    <2> QED
      BY <2>4, <2>5, <2>6 DEF MessageType
  <1> QED
    BY <1>1, <1>2 DEF Spoilt

\* All that Edited offers is a conversation.
LEMMA EditedTyped ==
  ASSUME NEW messages, Typed(messages), NEW edited \in Edited(messages)
  PROVE  Typed(edited)
  <1>0. \A i \in DOMAIN messages : i \in 1 .. Len(messages) /\ messages[i] \in MessageType
    BY DEF Typed
  <1>2. ASSUME NEW i \in 1 .. Len(messages) - 1,
               edited = Replaced(Replaced(messages, i, messages[i + 1]), i + 1, messages[i])
        PROVE  Typed(edited)
    <2>1. /\ i \in DOMAIN messages /\ i + 1 \in DOMAIN messages
          /\ messages[i] \in MessageType /\ messages[i + 1] \in MessageType
      BY DEF Typed
    <2> DEFINE once == Replaced(messages, i, messages[i + 1])
    <2>2. Typed(once) /\ DOMAIN once = DOMAIN messages
      BY <2>1, ReplacedTyped
    <2> HIDE DEF once
    <2>3. Typed(Replaced(once, i + 1, messages[i]))
      BY <2>1, <2>2, ReplacedTyped
    <2> QED
      BY <1>2, <2>3 DEF once
  <1>3. ASSUME NEW i \in DOMAIN messages, NEW message \in Spoilt(messages[i]),
               edited = Replaced(messages, i, message)
        PROVE  Typed(edited)
    <2>1. message \in MessageType
      BY <1>0, SpoiltTyped
    <2> QED
      BY <1>3, <2>1, ReplacedTyped
  <1>4. CASE edited = Append(Front(messages), Message("user", TRUE, <<>>, NoId))
    BY <1>4, UserTyped, CutTyped
  <1> DEFINE
        Fewer == {RemoveAt(messages, i) : i \in DOMAIN messages}
        Twice == {InsertAt(messages, i, messages[i]) : i \in DOMAIN messages}
        Swapped == {Replaced(Replaced(messages, i, messages[i + 1]), i + 1, messages[i])
                      : i \in 1 .. Len(messages) - 1}
        Changed == UNION {{Replaced(messages, i, message) : message \in Spoilt(messages[i])}
                            : i \in DOMAIN messages}
        Cut == {Append(Front(messages), Message("user", TRUE, <<>>, NoId))}
  <1>1. edited \in Fewer => Typed(edited)
    BY RemovedTyped
  <1>5. edited \in Twice => Typed(edited)
    BY RepeatedTyped
  <1>6. edited \in Swapped => Typed(edited)
    BY <1>2
  <1>7. edited \in Changed => Typed(edited)
    BY <1>3, Zenon
  <1>8. edited \in Cut => Typed(edited)
    BY <1>4
  <1>9. Edited(messages) = Fewer \cup Twice \cup Swapped \cup Changed \cup Cut
    BY DEF Edited
  <1> HIDE DEF Fewer, Twice, Swapped, Changed, Cut
  <1> QED
    BY <1>1, <1>5, <1>6, <1>7, <1>8, <1>9

RequestFields == {"authorized", "model", "tools", "choice", "limits", "sound", "messages", "honest"}

\* A request that only goes on from what was said.
IsHonest(request) ==
  /\ request = [field \in RequestFields |-> request[field]]
  /\ request.authorized = TRUE /\ request.sound = TRUE /\ request.honest = TRUE
  /\ request.model \in ServedModels
  /\ request.tools = Tools
  /\ request.limits = {"max_tokens"}
  /\ request.choice \in ChoiceMembers
  /\ request.messages = history

\* A usual request says what the client has heard and said.
LEMMA UsualIsHonest ==
  ASSUME NEW request \in Usual
  PROVE  IsHonest(request)
  <1>1. PICK model \in ServedModels, choice \in ChoiceMembers :
          request = [Honest(model) EXCEPT !.choice = choice]
    BY DEF Usual
  <1>2. request = [authorized |-> TRUE, model |-> model, tools |-> Tools, choice |-> choice,
                   limits |-> {"max_tokens"}, sound |-> TRUE, messages |-> history, honest |-> TRUE]
    BY <1>1 DEF Honest
  <1>3. /\ request = [field \in RequestFields |-> request[field]]
        /\ request.authorized = TRUE /\ request.sound = TRUE /\ request.honest = TRUE
        /\ request.model = model
        /\ request.tools = Tools
        /\ request.limits = {"max_tokens"}
        /\ request.choice = choice
        /\ request.messages = history
    BY <1>2 DEF RequestFields
  <1> QED
    BY <1>1, <1>3 DEF IsHonest

\* What is wrong with a request is not its messages' type.
LEMMA VariantsTyped ==
  ASSUME Typed(history), NEW usual, IsHonest(usual), NEW request \in Variants(usual)
  PROVE  Typed(request.messages) /\ request.honest = FALSE
  <1> DEFINE other == [usual EXCEPT !.honest = FALSE]
  <1>1. usual = [field \in RequestFields |-> usual[field]]
    BY DEF IsHonest
  <1>2. /\ other = [field \in RequestFields |-> other[field]]
        /\ other.messages = usual.messages /\ other.honest = FALSE
    BY <1>1 DEF RequestFields
  <1>3. usual.messages = history
    BY DEF IsHonest
  <1> HIDE DEF other
  <1>5. CASE request \in {[other EXCEPT !.authorized = FALSE],
              [other EXCEPT !.model = "unheard_of"], [other EXCEPT !.model = ""],
              [other EXCEPT !.limits = {}], [other EXCEPT !.limits = Limits],
              [other EXCEPT !.tools = {}], [other EXCEPT !.sound = FALSE]}
    <2>1. request.messages = other.messages /\ request.honest = other.honest
      BY <1>2, <1>5 DEF RequestFields
    <2> QED
      BY <1>2, <1>3, <2>1
  <1>6. request \in {[other EXCEPT !.authorized = FALSE],
              [other EXCEPT !.model = "unheard_of"], [other EXCEPT !.model = ""],
              [other EXCEPT !.limits = {}], [other EXCEPT !.limits = Limits],
              [other EXCEPT !.tools = {}], [other EXCEPT !.sound = FALSE]}
    BY DEF Variants, other
  <1> QED
    BY <1>5, <1>6

\* Whatever the client asks is a conversation; only the usual one is honest.
LEMMA AskedTyped ==
  ASSUME Typed(history), NEW request \in Usual \cup Unusual
  PROVE  Typed(request.messages) /\ (request.honest => IsHonest(request))
  <1>1. CASE request \in Usual
    <2>1. IsHonest(request)
      BY <1>1, UsualIsHonest
    <2> QED
      BY <2>1 DEF IsHonest
  <1>2. CASE request \in UNION {Variants(usual) : usual \in Usual}
    <2>1. PICK usual \in Usual : request \in Variants(usual)
      BY <1>2
    <2>2. IsHonest(usual)
      BY UsualIsHonest
    <2>3. Typed(request.messages) /\ request.honest = FALSE
      BY <2>1, <2>2, VariantsTyped
    <2> QED
      BY <2>3
  <1>3. ASSUME NEW model \in ServedModels, NEW messages \in Edited(history),
               request = Instead(model, messages)
        PROVE  Typed(request.messages) /\ (request.honest => IsHonest(request))
    <2>1. Typed(messages)
      BY EditedTyped
    <2>2. request.messages = messages /\ request.honest = FALSE
      BY <1>3 DEF Instead, Honest
    <2> QED
      BY <2>1, <2>2
  <1> DEFINE Varied == UNION {Variants(usual) : usual \in Usual}
             Altered == {Instead(model, messages) :
                           model \in ServedModels, messages \in Edited(history)}
             Fine == Typed(request.messages) /\ (request.honest => IsHonest(request))
  <1>4. request \in Altered => Fine
    BY <1>3
  <1>5. Unusual = Varied \cup Altered
    BY DEF Unusual
  <1> HIDE DEF Altered, Varied, Fine
  <1>6. request \in Usual => Fine
    BY <1>1 DEF Fine
  <1>7. request \in Varied => Fine
    BY <1>2 DEF Varied, Fine
  <1>8. Fine
    BY <1>4, <1>5, <1>6, <1>7
  <1> QED
    BY <1>8 DEF Fine

IsTable(routes) ==
  /\ IsSeq(routes)
  /\ \A i \in DOMAIN routes :
       /\ Named(routes[i].model_name)
       /\ IsSeq(routes[i].targets) /\ Len(routes[i].targets) # 0

LEMMA MapIsSeq ==
  ASSUME NEW s, IsSeq(s), NEW t, t = [i \in DOMAIN s |-> t[i]]
  PROVE  IsSeq(t) /\ Len(t) = Len(s)
  <1>1. Len(s) \in Nat /\ DOMAIN s = 1 .. Len(s)
    BY DEF IsSeq
  <1> DEFINE n == Len(s)
             S == {t[i] : i \in 1 .. n}
  <1>2. t = [i \in 1 .. n |-> t[i]] /\ n \in Nat
    BY <1>1
  <1> HIDE DEF n
  <1>3. t \in Seq(S) /\ Len(t) = n
    BY <1>2
  <1> QED
    BY <1>3 DEF IsSeq, n

\* A route that is found is the sequence of its targets.
LEMMA RouteIsSeq ==
  ASSUME NEW routes, IsTable(routes), NEW name
  PROVE  /\ IsSeq(GetRoute(routes, name))
         /\ GetRoute(routes, name) = <<>> <=> RouteAt(routes, name) = {}
  <1>1. CASE RouteAt(routes, name) = {}
    BY <1>1, EmptyIsSeq DEF GetRoute
  <1>2. CASE RouteAt(routes, name) # {}
    <2> DEFINE at == Min(RouteAt(routes, name))
    <2>1. at \in DOMAIN routes
      BY <1>2, FirstRoute DEF IsTable
    <2>2. GetRoute(routes, name) = routes[at].targets
      BY <1>2 DEF GetRoute
    <2> HIDE DEF at
    <2>3. IsSeq(routes[at].targets) /\ Len(routes[at].targets) # 0
      BY <2>1 DEF IsTable
    <2> QED
      BY <1>2, <2>2, <2>3, EmptyIsSeq
  <1> QED
    BY <1>1, <1>2

----------------------------------------------------------------------------
(***************************************************************************)
(* The conversation.                                                       *)
(***************************************************************************)
Kept ==
  /\ nextId \in Ids
  /\ Typed(history)
  /\ IsTable(table)

Statuses == {0, 200, 400, 401, 404, 502}

Asked ==
  step \in {"received", "routing", "sent", "answered"} =>
    Typed(chat.messages) /\ (chat.honest => IsHonest(chat))

Underway ==
  /\ step \in {"routing", "sent"} => attempt \in DOMAIN Route /\ Status = 200
  /\ step = "sent" => outbound = Outbound(Route[attempt], chat)

Replied ==
  /\ reply.status \in Statuses
  /\ step = "answered" =>
       /\ reply.status = 200 =>
            Status = 200 /\ reply.content \in BOOLEAN /\ GoodCallList(reply.calls)
       /\ reply.status \notin {200, 502} => reply.status = Status

ChatInv == step \in Steps /\ gate \in {"off", "key"} /\ Kept /\ Asked /\ Underway /\ Replied

LEMMA InitChatInv == Init => ChatInv
  <1> SUFFICES ASSUME ChatInit PROVE ChatInv
    BY DEF Init
  <1>1. /\ table = <<>> /\ nextId = 1 /\ history = <<>> /\ step = "closed" /\ reply.status = 0
        /\ gate = "key"
    BY DEF ChatInit, NoReply
  <1>2. IsTable(<<>>)
    BY EmptyIsSeq DEF IsTable
  <1>3. Typed(<<>>)
    BY EmptySeq DEF Typed
  <1> QED
    BY <1>1, <1>2, <1>3 DEF ChatInv, Steps, Kept, Asked, Underway, Replied, Statuses, Ids

LEMMA StatusCodes == Status \in {200, 400, 401, 404}
  BY DEF Status

\* The routes are handed over.
LEMMA OpensKeeps ==
  ASSUME ChatInv, NEW routes, GuardedRoutes(routes), NEW noAuth, Opens(routes, noAuth)
  PROVE  ChatInv'
  <1>1. /\ step' = "idle" /\ gate' \in {"off", "key"} /\ nextId' = nextId /\ reply' = reply
        /\ history' \in Openings
    BY DEF Opens
  <1>2. Typed(history')
    BY <1>1, ChatAssumption DEF Typed
  <1> DEFINE targets(i) == [k \in DOMAIN routes[i].targets |-> routes[i].targets[k].provider]
             row(i) == [model_name |-> routes[i].model_name, targets |-> targets(i)]
  <1>3. table' = [i \in DOMAIN routes |-> row(i)]
    BY DEF Opens
  <1>5. IsTable(table')
    <2>1. IsSeq(table') /\ DOMAIN table' = DOMAIN routes
      <3>1. table' = [i \in DOMAIN routes |-> table'[i]]
        BY <1>3
      <3> QED
        BY <3>1, MapIsSeq DEF GuardedRoutes
    <2>2. ASSUME NEW i \in DOMAIN routes
          PROVE  /\ Named(table'[i].model_name)
                 /\ IsSeq(table'[i].targets) /\ Len(table'[i].targets) # 0
      <3>1. GuardedRoute(routes[i])
        BY <2>2 DEF GuardedRoutes
      <3>2. IsSeq(targets(i)) /\ Len(targets(i)) = Len(routes[i].targets)
        <4>1. targets(i) = [k \in DOMAIN routes[i].targets |-> targets(i)[k]]
          OBVIOUS
        <4> HIDE DEF targets
        <4> QED
          BY <3>1, <4>1, MapIsSeq DEF GuardedRoute
      <3>3. table'[i] = row(i)
        BY <1>3, <2>2
      <3>4. table'[i].model_name = routes[i].model_name /\ table'[i].targets = targets(i)
        BY <3>3
      <3> HIDE DEF targets, row
      <3>5. Named(routes[i].model_name) /\ Len(routes[i].targets) # 0
        BY <3>1 DEF GuardedRoute
      <3> QED
        BY <3>2, <3>4, <3>5, Zenon
    <2> QED
      BY <2>1, <2>2 DEF IsTable
  <1> QED
    BY <1>1, <1>2, <1>5 DEF ChatInv, Steps, Kept, Asked, Underway, Replied

\* What the client is told is kept to the word.
LEMMA AnswerTyped ==
  ASSUME NEW content \in BOOLEAN, NEW calls \in Seq(CallType)
  PROVE  Message("assistant", content, calls, NoId) \in MessageType
  BY DEF Message, MessageType

\* A result for each of the calls.
ResultFor(id) == Message("tool", TRUE, <<>>, id)
ResultsOf(calls) == {ResultFor(id) : id \in UsedIds(calls)}

\* What the client goes on with: a result,
LEMMA ResultTyped ==
  ASSUME NEW id \in Ids
  PROVE  ResultFor(id) \in MessageType
  <1>1. <<>> \in Seq(CallType)
    BY EmptySeq
  <1> QED
    BY <1>1 DEF ResultFor, Message, MessageType

\* a result for each call in any order, or a new question,
LEMMA FollowUpsTyped ==
  ASSUME GoodCallList(reply.calls), NEW after \in FollowUps
  PROVE  Typed(after)
  <1>1. CASE reply.calls = <<>>
    <2>1. after = <<Message("user", TRUE, <<>>, NoId)>>
      BY <1>1 DEF FollowUps
    <2> DEFINE user == Message("user", TRUE, <<>>, NoId)
    <2>2. user \in MessageType
      BY UserTyped
    <2> HIDE DEF user
    <2>3. <<user>> \in Seq(MessageType)
      BY <2>2
    <2> QED
      BY <2>1, <2>3 DEF user, Typed
  <1>2. CASE reply.calls # <<>>
    <2> DEFINE results == ResultsOf(reply.calls)
    <2>1. after \in SetToSeqs(results)
      BY <1>2 DEF FollowUps, ResultsOf, ResultFor
    <2>3. IsFiniteSet(results)
      <3> DEFINE calls == reply.calls
                 n == Len(calls)
                 result == [i \in 1 .. n |-> ResultFor(calls[i].id)]
      <3>1. n \in Nat /\ DOMAIN calls = 1 .. n
        BY DEF GoodCallList
      <3>2. IsFiniteSet(1 .. n)
        BY <3>1, FS_Interval
      <3>3. result \in Surjection(1 .. n, results)
        BY <3>1 DEF Surjection, ResultsOf, UsedIds
      <3> HIDE DEF n, calls, result, results
      <3> QED
        BY <3>2, <3>3, FS_Surjection
    <2>4. results \subseteq MessageType
      BY ResultTyped DEF ResultsOf, UsedIds, GoodCallList, OwnIds
    <2> HIDE DEF results
    <2>5. Cardinality(results) \in Nat
      BY <2>3, FS_CardinalityType
    <2>6. after \in [1 .. Cardinality(results) -> results]
      BY <2>1 DEF SetToSeqs
    <2>7. after \in Seq(MessageType)
      BY <2>4, <2>5, <2>6
    <2> QED
      BY <2>7 DEF Typed
  <1> QED
    BY <1>1, <1>2

\* after all that was said before.
LEMMA ContinueTyped ==
  ASSUME ChatInv, Continue
  PROVE  Typed(history')
  <1>1. reply.content \in BOOLEAN /\ GoodCallList(reply.calls)
    BY DEF Continue, ChatInv, Replied
  <1> DEFINE answer == Message("assistant", reply.content, reply.calls, NoId)
  <1>2. answer \in MessageType
    BY <1>1, AnswerTyped DEF GoodCallList
  <1>3. PICK after \in FollowUps : history' = history \o <<answer>> \o after
    BY DEF Continue
  <1>4. Typed(after) /\ Typed(history)
    BY <1>1, FollowUpsTyped DEF ChatInv, Kept
  <1> HIDE DEF answer
  <1>5. history \o <<answer>> \in Seq(MessageType)
    BY <1>2, <1>4, ConcatProperties DEF Typed
  <1> QED
    BY <1>3, <1>4, <1>5, ConcatProperties DEF Typed

LEMMA SameStatus ==
  ASSUME UNCHANGED <<table, gate, chat>>
  PROVE  Status' = Status /\ Route' = Route
  <1>1. Route' = Route
    BY DEF Route
  <1>2. Status' = IF gate' = "key" /\ ~chat'.authorized THEN 401
                  ELSE IF chat'.model = "" THEN 400
                  ELSE IF Route' = <<>> THEN 404
                  ELSE IF ValidRequest(chat') /\ ValidForRoute(chat', Route') THEN 200
                  ELSE 400
    BY DEF Status
  <1>3. gate' = gate /\ chat' = chat
    OBVIOUS
  <1> QED
    BY <1>1, <1>2, <1>3 DEF Status

\* What a request has that is let through.
LEMMA Passed ==
  ASSUME Status = 200
  PROVE  /\ Route # <<>>
         /\ ValidRequest(chat)
         /\ ValidForRoute(chat, Route)
  <1>1. /\ 401 # 200 /\ 400 # 200 /\ 404 # 200
    OBVIOUS
  <1>2. ASSUME NEW a \in BOOLEAN, NEW b \in BOOLEAN, NEW c \in BOOLEAN, NEW d \in BOOLEAN,
               (IF a THEN 401 ELSE IF b THEN 400 ELSE IF c THEN 404 ELSE IF d THEN 200 ELSE 400) = 200
        PROVE  ~a /\ ~b /\ ~c /\ d
    BY <1>2
  <1> DEFINE a == gate = "key" /\ ~chat.authorized
             b == chat.model = ""
             c == Route = <<>>
             d == ValidRequest(chat) /\ ValidForRoute(chat, Route)
  <1>3. (IF a THEN 401 ELSE IF b THEN 400 ELSE IF c THEN 404 ELSE IF d THEN 200 ELSE 400) = 200
    BY Zenon DEF Status
  <1>4. a \in BOOLEAN /\ b \in BOOLEAN /\ c \in BOOLEAN /\ d \in BOOLEAN
    BY DEF ValidRequest, ValidForRoute
  <1> HIDE DEF a, b, c, d
  <1>5. ~a /\ ~b /\ ~c /\ d
    BY <1>2, <1>3, <1>4
  <1> QED
    BY <1>5, Zenon DEF c, d

\* Each step of the conversation keeps its invariant.
LEMMA ChatStepKeeps ==
  ASSUME ChatInv, ChatNext
  PROVE  ChatInv'
  <1>0. /\ step \in Steps /\ gate \in {"off", "key"} /\ nextId \in Ids /\ Typed(history)
        /\ IsTable(table) /\ reply.status \in Statuses
    BY DEF ChatInv, Kept, Replied
  <1>1. CASE Ask
    <2>1. /\ step' = "received" /\ chat' \in Usual \cup Unusual
          /\ UNCHANGED <<table, gate, nextId, history, attempt, outbound, reply>>
      BY <1>1 DEF Ask
    <2>2. Typed(chat'.messages) /\ (chat'.honest => IsHonest(chat'))
      BY <1>0, <2>1, AskedTyped
    <2>3. IsHonest(chat') => IsHonest(chat)'
      BY <2>1 DEF IsHonest, ServedModels
    <2> QED
      BY <1>0, <2>1, <2>2, <2>3 DEF ChatInv, Steps, Kept, Asked, Underway, Replied
  <1>2. CASE Reject
    <2>1. /\ step = "received" /\ step' = "answered" /\ Status # 200 /\ reply' = [status |-> Status]
          /\ UNCHANGED <<table, gate, history, chat, attempt, nextId>>
      BY <1>2 DEF Reject, Answer
    <2>2. reply'.status = Status /\ Status' = Status
      <3>1. reply'.status = Status
        BY <2>1
      <3> QED
        BY <2>1, <3>1, SameStatus
    <2>3. Asked'
      BY <1>0, <2>1 DEF ChatInv, Asked, IsHonest, ServedModels
    <2>4. Replied'
      BY <2>1, <2>2, StatusCodes DEF Replied, Statuses
    <2> QED
      BY <1>0, <2>1, <2>3, <2>4 DEF ChatInv, Steps, Kept, Underway
  <1>3. CASE Accept
    <2>1. /\ step = "received" /\ step' = "routing" /\ Status = 200 /\ attempt' = 1
          /\ UNCHANGED <<table, gate, nextId, history, chat, outbound, reply>>
      BY <1>3 DEF Accept
    <2>2. Status' = Status /\ Route' = Route
      BY <2>1, SameStatus
    <2>3. 1 \in DOMAIN Route
      <3>1. Route # <<>>
        BY <2>1, Passed
      <3>2. IsSeq(Route)
        BY <1>0, RouteIsSeq DEF Route
      <3>3. Len(Route) \in DOMAIN Route /\ DOMAIN Route = 1 .. Len(Route) /\ Len(Route) \in Nat
        BY <3>1, <3>2, FrontAny DEF IsSeq
      <3> QED
        BY <3>3
    <2>4. Asked'
      BY <1>0, <2>1 DEF ChatInv, Asked, IsHonest, ServedModels
    <2> QED
      BY <1>0, <2>1, <2>2, <2>3, <2>4 DEF ChatInv, Steps, Kept, Underway, Replied
  <1>4. CASE Send
    <2>1. /\ step = "routing" /\ step' = "sent" /\ outbound' = Outbound(Route[attempt], chat)
          /\ UNCHANGED <<table, gate, nextId, history, chat, attempt, reply>>
      BY <1>4 DEF Send
    <2>2. Status' = Status /\ Route' = Route
      BY <2>1, SameStatus
    <2>4. Asked'
      BY <1>0, <2>1 DEF ChatInv, Asked, IsHonest, ServedModels
    <2> QED
      BY <1>0, <2>1, <2>2, <2>4 DEF ChatInv, Steps, Kept, Underway, Replied
  <1>5. ASSUME step = "sent", NextTarget, nextId' \in Ids PROVE ChatInv'
    <2>0. attempt \in DOMAIN Route /\ Status = 200
      BY <1>5 DEF ChatInv, Underway
    <2>1. UNCHANGED <<table, gate, history, chat>>
      BY <1>5 DEF NextTarget, Answer
    <2>2. Status' = Status /\ Route' = Route
      BY <2>1, SameStatus
    <2>3. CASE attempt = Len(Route)
      <3>1. step' = "answered" /\ reply' = [status |-> 502]
        BY <1>5, <2>3 DEF NextTarget, Answer
      <3>2. reply'.status = 502
        BY <3>1
      <3>4. Asked'
        BY <1>5, <2>1, <3>1 DEF ChatInv, Asked, IsHonest, ServedModels
      <3> QED
        BY <1>0, <1>5, <2>1, <3>1, <3>2, <3>4
        DEF ChatInv, Steps, Kept, Underway, Replied, Statuses
    <2>4. CASE attempt # Len(Route)
      <3>1. step' = "routing" /\ attempt' = attempt + 1 /\ reply' = reply
        BY <1>5, <2>4 DEF NextTarget
      <3>2. attempt + 1 \in DOMAIN Route
        <4>1. IsSeq(Route)
          BY <1>0, RouteIsSeq DEF Route
        <4>2. Len(Route) \in Nat /\ DOMAIN Route = 1 .. Len(Route)
          BY <4>1 DEF IsSeq
        <4> QED
          BY <2>0, <2>4, <4>2
      <3>4. Asked'
        BY <1>5, <2>1, <3>1 DEF ChatInv, Asked, IsHonest, ServedModels
      <3> QED
        BY <1>0, <1>5, <2>0, <2>1, <2>2, <3>1, <3>2, <3>4
        DEF ChatInv, Steps, Kept, Underway, Replied
    <2> QED
      BY <2>3, <2>4
  <1>6. CASE AttemptFails
    BY <1>0, <1>5, <1>6 DEF AttemptFails
  <1>7. CASE ProviderAnswers
    <2>1. PICK body \in Bodies :
            LET done == Completed(Route[attempt], ToolChoice(chat), body, nextId)
            IN /\ nextId' = done.next
               /\ IF done.good
                  THEN Answer([status |-> 200, content |-> done.content, calls |-> done.calls])
                  ELSE NextTarget
      BY <1>7 DEF ProviderAnswers
    <2> DEFINE done == Completed(Route[attempt], ToolChoice(chat), body, nextId)
    <2>2. GoodAnswer(done)
      <3>1. body.parts \in Seq(PartType)
        BY ChatAssumption
      <3> QED
        BY <1>0, <3>1, CompletedIsGood
    <2>3. /\ nextId' = done.next
          /\ done.good => Answer([status |-> 200, content |-> done.content, calls |-> done.calls])
          /\ ~done.good => NextTarget
      BY <2>1
    <2>4. step = "sent"
      BY <1>7 DEF ProviderAnswers
    <2> HIDE DEF done
    <2>5. nextId' \in Ids
      BY <2>2, <2>3 DEF GoodAnswer
    <2>6. CASE done.good
      <3> DEFINE given == [status |-> 200, content |-> done.content, calls |-> done.calls]
      <3>1. given.status = 200 /\ given.content = done.content /\ given.calls = done.calls
        OBVIOUS
      <3>2. Answer(given)
        BY <2>3, <2>6
      <3> HIDE DEF given
      <3>3. /\ step' = "answered" /\ reply' = given
            /\ UNCHANGED <<table, gate, history, chat>>
        BY <3>2 DEF Answer
      <3>4. Status' = Status /\ Status = 200
        <4>1. Status = 200
          BY <2>4 DEF ChatInv, Underway
        <4> QED
          BY <3>3, <4>1, SameStatus
      <3>5. Asked'
        BY <2>4, <3>3 DEF ChatInv, Asked, IsHonest, ServedModels
      <3>6. done.content \in BOOLEAN /\ GoodCallList(done.calls)
        BY <2>2, <2>6 DEF GoodAnswer
      <3>8. GoodCallList(reply'.calls) => GoodCallList(reply.calls)'
        BY DEF GoodCallList, OwnIds
      <3>7. Replied'
        BY <3>1, <3>3, <3>4, <3>6, <3>8 DEF Replied, Statuses
      <3> QED
        BY <1>0, <2>5, <3>3, <3>5, <3>7 DEF ChatInv, Steps, Kept, Underway
    <2> QED
      BY <1>5, <2>3, <2>4, <2>5, <2>6
  <1>8. CASE Continue
    <2>1. /\ step' = "idle" /\ reply' = NoReply
          /\ UNCHANGED <<table, gate, nextId>>
      BY <1>8 DEF Continue
    <2>2. Typed(history')
      BY <1>8, ContinueTyped
    <2>3. reply'.status = 0
      BY <2>1 DEF NoReply
    <2> QED
      BY <1>0, <2>1, <2>2, <2>3 DEF ChatInv, Steps, Kept, Asked, Underway, Replied, Statuses
  <1>9. CASE Restart
    <2>1. /\ step' = "idle" /\ reply' = NoReply /\ nextId' = 1
          /\ UNCHANGED <<table, gate, history>>
      BY <1>9 DEF Restart
    <2>3. reply'.status = 0 /\ 1 \in Ids
      BY <2>1 DEF NoReply, Ids
    <2> QED
      BY <1>0, <2>1, <2>3 DEF ChatInv, Steps, Kept, Asked, Underway, Replied, Statuses
  <1> QED
    BY <1>1, <1>2, <1>3, <1>4, <1>6, <1>7, <1>8, <1>9 DEF ChatNext

StartTypes ==
  /\ stage \in Stages /\ code \in {"none", "0", "1", "2"}
  /\ cli \in CommandLines
  /\ place \in Places

LEMMA InitStartTypes == Init => StartTypes
  BY DEF Init, StartInit, ReaderInit, StartTypes, Stages, Places

LEMMA ReaderPlaces == ASSUME place \in Places, ReaderNext PROVE place' \in Places
  BY DEF ReaderNext, StreamBegins, DocumentBegins, NoDocument, ReadScalar, OpenCollection,
         CloseCollection, RefuseNode, ReadKey, RefuseKey, DocumentEnds, StreamEnds,
         SecondDocument, ScanFails, Complete, Refuse, Places

\* Each step of the startup keeps its types.
LEMMA StartStepTypes == ASSUME StartTypes, StartNext \/ Serve PROVE StartTypes'
  <1> USE DEF StartTypes, Goto
  <1>1. ASSUME NEW with \in {"0", "1", "2"}, Exit(with) PROVE StartTypes'
    BY <1>1 DEF Exit, Stages, Places
  <1>2. CASE ParseArguments \/ ReadFile \/ Deserialize
    BY <1>2 DEF ParseArguments, ReadFile, Deserialize, readerVars, Stages
  <1>3. CASE Parse
    BY <1>3, ReaderPlaces DEF Parse
  <1>4. CASE Build
    BY <1>4 DEF Build, Stages
  <1>5. CASE Serve
    BY <1>5 DEF Serve, readerVars, Stages
  <1>6. CASE RefuseArguments
    BY <1>1, <1>6 DEF RefuseArguments
  <1>7. CASE ReadFileFails \/ ParseFails \/ DeserializeFails \/ BuildFails \/ Validate \/ ServeFails
    BY <1>1, <1>7 DEF ReadFileFails, ParseFails, DeserializeFails, BuildFails, Validate, ServeFails
  <1> QED
    BY <1>2, <1>3, <1>4, <1>5, <1>6, <1>7 DEF StartNext

\* Everything that is kept.
AppInv == StartTypes /\ BuildInv /\ ChatInv

LEMMA InitAppInv == Init => AppInv
  BY InitStartTypes, InitBuildInv, InitChatInv DEF AppInv

LEMMA ServeBuilds == ASSUME BuildInv, UNCHANGED startVars \/ Serve PROVE BuildInv'
  <1>1. CASE UNCHANGED startVars
    BY <1>1 DEF startVars, readerVars, BuildInv, Trees
  <1>2. CASE Serve
    BY <1>2 DEF Serve, readerVars, BuildInv, Trees
  <1> QED
    BY <1>1, <1>2

\* The startup does not touch the conversation.
LEMMA SameChat == ASSUME ChatInv, UNCHANGED chatVars PROVE ChatInv'
  <1>1. UNCHANGED <<table, gate, nextId, history, step, chat, attempt, outbound, reply>>
    BY DEF chatVars
  <1>2. Status' = Status /\ Route' = Route
    BY <1>1, SameStatus
  <1>3. Asked' /\ Kept'
    BY <1>1 DEF ChatInv, Asked, Kept, IsHonest, ServedModels
  <1>4. Underway' /\ Replied'
    BY <1>1, <1>2 DEF ChatInv, Underway, Replied, GoodCallList, OwnIds
  <1> QED
    BY <1>1, <1>3, <1>4 DEF ChatInv

\* The parts of the invariant, put together.
LEMMA AppInvKept == AppInv /\ [Next]_vars => AppInv'
  <1> SUFFICES ASSUME AppInv, [Next]_vars PROVE AppInv'
    OBVIOUS
  <1>0. StartTypes /\ BuildInv /\ ChatInv
    BY DEF AppInv
  <1>1. CASE StartNext /\ UNCHANGED chatVars
    BY <1>0, <1>1, StartStepTypes, StartBuilds, SameChat DEF AppInv
  <1>2. CASE Serve /\ Opens(config.routes, cli.no_auth)
    <2>1. GuardedRoutes(config.routes)
      BY <1>0, <1>2 DEF Serve, BuildInv
    <2>2. ChatInv'
      BY <1>0, <1>2, <2>1, OpensKeeps
    <2> QED
      BY <1>0, <1>2, <2>2, StartStepTypes, ServeBuilds DEF AppInv
  <1>3. CASE ChatNext /\ UNCHANGED startVars
    <2>1. StartTypes'
      BY <1>0, <1>3 DEF startVars, readerVars, StartTypes
    <2> QED
      BY <1>0, <1>3, <2>1, ServeBuilds, ChatStepKeeps DEF AppInv
  <1>4. CASE UNCHANGED vars
    <2>1. UNCHANGED startVars /\ UNCHANGED chatVars
      BY <1>4 DEF vars
    <2>2. StartTypes'
      BY <1>0, <2>1 DEF startVars, readerVars, StartTypes
    <2> QED
      BY <1>0, <2>1, <2>2, ServeBuilds, SameChat DEF AppInv
  <1> QED
    BY <1>1, <1>2, <1>3, <1>4 DEF Next

(***************************************************************************)
(* Every variable has its type, for any file and any conversation: the     *)
(* reader never has an item without its key, the counter of ids stays      *)
(* positive, what is said stays a sequence of messages, and the target     *)
(* that is tried is one of the route (parse_node, normalize_calls,         *)
(* dispatch_route).                                                        *)
(***************************************************************************)
THEOREM ApplicationTypeCorrect == Spec => []TypeOK
  <1>1. AppInv => TypeOK
    <2> SUFFICES ASSUME AppInv PROVE TypeOK
      OBVIOUS
    <2>1. StartTypes /\ Trees /\ ChatInv
      BY DEF AppInv, BuildInv
    <2>2. \A i \in DOMAIN open :
            IF open[i].node = "map" THEN Len(open[i].keys) - Len(open[i].items) \in {0, 1}
            ELSE open[i].node = "seq" /\ open[i].keys = <<>>
      <3>1. \A i \in DOMAIN open : Growing(open[i])
        BY <2>1 DEF Trees, Stack
      <3> QED
        BY <3>1 DEF Growing
    <2>3. /\ step \in Steps /\ gate \in {"off", "key"} /\ nextId \in Ids
          /\ history \in Seq(MessageType)
          /\ reply.status \in {0, 200, 400, 401, 404, 502}
          /\ step \in {"routing", "sent"} => attempt \in DOMAIN Route
      BY <2>1 DEF ChatInv, Kept, Typed, Underway, Replied, Statuses
    <2> QED
      BY <2>1, <2>2, <2>3 DEF StartTypes, TypeOK
  <1> QED
    BY <1>1, InitAppInv, AppInvKept, PTL DEF Spec

----------------------------------------------------------------------------
(***************************************************************************)
(* Native messages while they are made.  A turn is a message of the        *)
(* provider; behind each of the model's turns are the results of its       *)
(* calls, but for those that are pending.                                  *)
(***************************************************************************)
TurnFields == {"role", "parts"}
IsTurn(t) == t = [field \in TurnFields |-> t[field]]

IdsOf(parts) == {p.id : p \in parts}

\* A turn has one result for an id.
Distinct(parts) ==
  \A k, l \in DOMAIN parts :
    parts[k].part = "result" /\ parts[l].part = "result" /\ parts[k].id = parts[l].id => k = l

GoodTurn(t) == IsTurn(t) /\ IsSeq(t.parts) /\ Len(t.parts) # 0 /\ Distinct(t.parts)

Alternating(turns) ==
  /\ IsSeq(turns)
  /\ \A p \in DOMAIN turns : GoodTurn(turns[p]) /\ (turns[p].role = "user" <=> p % 2 = 1)

ResultsAt(turns, p) == IF p \in DOMAIN turns THEN Parts(turns[p], "result") ELSE {}

\* named: results repeat the name of their call.
SameNames(calls, results, named) ==
  named => \A c \in calls, r \in results : c.id = r.id => c.name = r.name

Answered(turns, p, pending, named) ==
  /\ IdsOf(Parts(turns[p], "call")) = IdsOf(ResultsAt(turns, p + 1)) \cup pending
  /\ IdsOf(ResultsAt(turns, p + 1)) \cap pending = {}
  /\ SameNames(Parts(turns[p], "call"), ResultsAt(turns, p + 1), named)

Linked(turns, pending, named) ==
  \A p \in DOMAIN turns : p % 2 = 0 =>
    Answered(turns, p, IF p + 1 >= Len(turns) THEN pending ELSE {}, named)

\* One turn more.
LEMMA TurnMore ==
  ASSUME NEW turns, Alternating(turns), NEW t, GoodTurn(t),
         t.role = "user" <=> (Len(turns) + 1) % 2 = 1
  PROVE  Alternating(Append(turns, t))
  <1> DEFINE n == Len(turns)
             next == Append(turns, t)
  <1>1. /\ IsSeq(next) /\ n \in Nat /\ DOMAIN turns = 1 .. n /\ DOMAIN next = 1 .. n + 1
        /\ \A i \in 1 .. n : next[i] = turns[i]
        /\ next[n + 1] = t
    BY AppendAny DEF Alternating
  <1> HIDE DEF n, next
  <1>2. ASSUME NEW p \in DOMAIN next
        PROVE  GoodTurn(next[p]) /\ (next[p].role = "user" <=> p % 2 = 1)
    <2>1. p \in 1 .. n \/ p = n + 1
      BY <1>1
    <2> QED
      BY <1>1, <2>1 DEF n, Alternating
  <1>3. Alternating(next)
    BY <1>1, <1>2 DEF Alternating
  <1> QED
    BY <1>3 DEF next

\* The user's turn: a word, or the first result.
LEMMA UserTurn ==
  ASSUME NEW turns, Alternating(turns), NEW pending, NEW named, Linked(turns, pending, named),
         Len(turns) % 2 = 0, NEW t,
         IdsOf(Parts(t, "result")) \subseteq pending,
         Len(turns) # 0 =>
           SameNames(Parts(turns[Len(turns)], "call"), Parts(t, "result"), named)
  PROVE  Linked(Append(turns, t), pending \ IdsOf(Parts(t, "result")), named)
  <1> DEFINE n == Len(turns)
             next == Append(turns, t)
             R == Parts(t, "result")
             left == pending \ IdsOf(R)
  <1>1. /\ n \in Nat /\ DOMAIN turns = 1 .. n /\ DOMAIN next = 1 .. n + 1 /\ Len(next) = n + 1
        /\ \A i \in 1 .. n : next[i] = turns[i]
        /\ next[n + 1] = t
    BY AppendAny DEF Alternating
  <1>0. n % 2 = 0
    OBVIOUS
  <1> HIDE DEF n, next
  <1> SUFFICES ASSUME NEW p \in DOMAIN next, p % 2 = 0
               PROVE  Answered(next, p, IF p + 1 >= Len(next) THEN left ELSE {}, named)
    BY DEF Linked, next
  <1>2. p \in 1 .. n /\ p \in DOMAIN turns
    BY <1>0, <1>1
  <1>3. Answered(turns, p, IF p + 1 >= n THEN pending ELSE {}, named)
    BY <1>2 DEF Linked, n
  <1>4. CASE p = n
    <2>1. ResultsAt(turns, p + 1) = {}
      BY <1>1, <1>4 DEF ResultsAt
    <2>2. ResultsAt(next, p + 1) = R
      BY <1>1, <1>4 DEF ResultsAt
    <2>3. next[p] = turns[p]
      BY <1>1, <1>2
    <2>4. IdsOf(Parts(turns[p], "call")) = pending
      BY <1>1, <1>3, <1>4, <2>1 DEF Answered, IdsOf
    <2>5. SameNames(Parts(turns[p], "call"), R, named)
      BY <1>1, <1>2, <1>4 DEF n
    <2>6. (IF p + 1 >= Len(next) THEN left ELSE {}) = left
      BY <1>1, <1>4
    <2>7. IdsOf(R) \subseteq pending
      OBVIOUS
    <2> HIDE DEF R
    <2>8. Answered(next, p, left, named)
      BY <2>2, <2>3, <2>4, <2>5, <2>7 DEF Answered
    <2> QED
      BY <2>6, <2>8
  <1>5. CASE p # n
    <2>1. p + 1 < n /\ p + 1 \in 1 .. n /\ p + 1 < Len(next)
      BY <1>0, <1>1, <1>2, <1>5
    <2>2. ResultsAt(next, p + 1) = ResultsAt(turns, p + 1)
      BY <1>1, <2>1 DEF ResultsAt
    <2>3. next[p] = turns[p]
      BY <1>1, <1>2
    <2> QED
      BY <1>1, <1>3, <2>1, <2>2, <2>3 DEF Answered
  <1> QED
    BY <1>4, <1>5

\* The model's turn: its calls are pending.
LEMMA ModelTurn ==
  ASSUME NEW turns, Alternating(turns), NEW named, Linked(turns, {}, named),
         Len(turns) % 2 = 1, NEW t
  PROVE  Linked(Append(turns, t), IdsOf(Parts(t, "call")), named)
  <1> DEFINE n == Len(turns)
             next == Append(turns, t)
             calls == Parts(t, "call")
  <1>1. /\ n \in Nat /\ DOMAIN turns = 1 .. n /\ DOMAIN next = 1 .. n + 1 /\ Len(next) = n + 1
        /\ \A i \in 1 .. n : next[i] = turns[i]
        /\ next[n + 1] = t
    BY AppendAny DEF Alternating
  <1>0. n % 2 = 1
    OBVIOUS
  <1> HIDE DEF n, next
  <1> SUFFICES ASSUME NEW p \in DOMAIN next, p % 2 = 0
               PROVE  Answered(next, p, IF p + 1 >= Len(next) THEN IdsOf(calls) ELSE {}, named)
    BY DEF Linked, next
  <1>4. CASE p = n + 1
    <2>1. ResultsAt(next, p + 1) = {}
      BY <1>1, <1>4 DEF ResultsAt
    <2>2. Parts(next[p], "call") = calls
      BY <1>1, <1>4
    <2>3. (IF p + 1 >= Len(next) THEN IdsOf(calls) ELSE {}) = IdsOf(calls)
      BY <1>1, <1>4
    <2> HIDE DEF calls
    <2> QED
      BY <2>1, <2>2, <2>3 DEF Answered, IdsOf, SameNames
  <1>5. CASE p # n + 1
    <2>1. p \in 1 .. n /\ p # n /\ p + 1 \in 1 .. n /\ p + 1 < Len(next)
      BY <1>0, <1>1, <1>5
    <2>2. ResultsAt(next, p + 1) = ResultsAt(turns, p + 1)
      BY <1>1, <2>1 DEF ResultsAt
    <2>3. next[p] = turns[p]
      BY <1>1, <2>1
    <2>4. Answered(turns, p, {}, named)
      BY <1>1, <2>1 DEF Linked, n
    <2> QED
      BY <1>1, <2>1, <2>2, <2>3, <2>4 DEF Answered
  <1> QED
    BY <1>4, <1>5

\* A result joins the last turn.
ResultJoined(turns, result) == [turns EXCEPT ![Len(turns)].parts = Append(@, result)]

\* A result that joins the last turn changes that turn only.
LEMMA JoinedTurn ==
  ASSUME NEW turns, Alternating(turns), Len(turns) \in Nat, Len(turns) # 0, NEW result
  PROVE  LET n == Len(turns)
             t == turns[n]
             next == ResultJoined(turns, result)
         IN /\ IsSeq(next) /\ DOMAIN next = 1 .. n /\ DOMAIN turns = 1 .. n /\ Len(next) = n
            /\ \A i \in 1 .. n : i # n => next[i] = turns[i]
            /\ IsTurn(next[n]) /\ next[n].role = t.role
            /\ next[n].parts = Append(t.parts, result)
  <1> DEFINE n == Len(turns)
             t == turns[n]
             parts == Append(t.parts, result)
             turn == [t EXCEPT !.parts = parts]
             next == [turns EXCEPT ![n] = turn]
  <1>1. DOMAIN turns = 1 .. n
    BY DEF Alternating, IsSeq
  <1>2. n \in DOMAIN turns
    BY <1>1
  <1>3. IsTurn(t)
    BY <1>2 DEF Alternating, GoodTurn
  <1>4. ResultJoined(turns, result) = next
    BY DEF ResultJoined
  <1> HIDE DEF n, t, parts
  <1>5. IsTurn(turn) /\ turn.role = t.role /\ turn.parts = parts
    BY <1>3 DEF IsTurn, TurnFields
  <1> HIDE DEF turn
  <1>6. /\ IsSeq(next) /\ DOMAIN next = DOMAIN turns /\ next[n] = turn
        /\ \A i \in DOMAIN turns : i # n => next[i] = turns[i]
    BY <1>2, ExceptAny DEF Alternating
  <1> HIDE DEF next
  <1>7. Len(next) = n
    BY <1>6, SameLength DEF n, Alternating
  <1> QED
    BY <1>1, <1>4, <1>5, <1>6, <1>7 DEF n, t, parts

\* The place before an odd one.
LEMMA EvenBefore ==
  ASSUME NEW n \in Nat, n # 0, n # 1, n % 2 = 1
  PROVE  n \in 1 .. n /\ n - 1 \in 1 .. n /\ (n - 1) % 2 = 0 /\ (n - 1) + 1 >= n /\ (n - 1) + 1 = n
  <1>1. n \in 1 .. n /\ n - 1 \in 1 .. n /\ (n - 1) + 1 >= n /\ (n - 1) + 1 = n
    OBVIOUS
  <1>2. (n - 1) % 2 = 0
    OBVIOUS
  <1> QED
    BY <1>1, <1>2

\* With it one call less is pending.
LEMMA ResultJoins ==
  ASSUME NEW turns, Alternating(turns), NEW pending, NEW named, Linked(turns, pending, named),
         Len(turns) % 2 = 1, Len(turns) # 1,
         NEW result, result.part = "result", result.id \in pending,
         SameNames(Parts(turns[Len(turns) - 1], "call"), {result}, named)
  PROVE  /\ Alternating(ResultJoined(turns, result))
         /\ Linked(ResultJoined(turns, result), pending \ {result.id}, named)
  <1> DEFINE n == Len(turns)
             t == turns[n]
             next == ResultJoined(turns, result)
             left == pending \ {result.id}
  <1>0. n \in Nat /\ n # 0 /\ n # 1 /\ n % 2 = 1
    BY DEF Alternating, IsSeq
  <1>1. /\ IsSeq(next) /\ DOMAIN next = 1 .. n /\ DOMAIN turns = 1 .. n /\ Len(next) = n
        /\ \A i \in 1 .. n : i # n => next[i] = turns[i]
        /\ IsTurn(next[n]) /\ next[n].role = t.role
        /\ next[n].parts = Append(t.parts, result)
    BY <1>0, JoinedTurn
  <1>2. n \in 1 .. n /\ n - 1 \in 1 .. n /\ (n - 1) % 2 = 0 /\ (n - 1) + 1 >= n /\ (n - 1) + 1 = n
    BY <1>0, EvenBefore
  <1>3. /\ GoodTurn(t)
        /\ t.role = "user" <=> n % 2 = 1
    BY <1>1, <1>2 DEF Alternating
  <1>4. SameNames(Parts(turns[n - 1], "call"), {result}, named)
    OBVIOUS
  <1>5. Answered(turns, n - 1, pending, named)
    BY <1>1, <1>2 DEF Linked
  <1>20. \A p \in 1 .. n : p % 2 = 0 => Answered(turns, p, IF p + 1 >= n THEN pending ELSE {}, named)
    BY <1>1 DEF Linked
  <1>21. \A p \in 1 .. n : GoodTurn(turns[p]) /\ (turns[p].role = "user" <=> p % 2 = 1)
    BY <1>1 DEF Alternating
  <1> HIDE DEF n, next
  <1>6. ResultsAt(turns, n) = Parts(t, "result")
    BY <1>1, <1>2 DEF ResultsAt
  <1> DEFINE old == t.parts
             m == Len(old)
  <1>7. /\ m \in Nat /\ DOMAIN old = 1 .. m
        /\ IsSeq(next[n].parts)
        /\ Len(next[n].parts) = m + 1
        /\ DOMAIN next[n].parts = 1 .. m + 1
        /\ \A k \in 1 .. m : next[n].parts[k] = old[k]
        /\ next[n].parts[m + 1] = result
    BY <1>1, <1>3, AppendAny DEF GoodTurn
  <1>8. \A k \in 1 .. m : old[k].part = "result" => old[k].id # result.id
    <2> SUFFICES ASSUME NEW k \in 1 .. m, old[k].part = "result" PROVE old[k].id # result.id
      OBVIOUS
    <2>1. old[k] \in Parts(t, "result")
      BY <1>7 DEF Parts, ToSet
    <2>2. old[k].id \in IdsOf(ResultsAt(turns, (n - 1) + 1))
      BY <1>2, <1>6, <2>1 DEF IdsOf
    <2> QED
      BY <1>5, <2>2 DEF Answered
  <1>9. Distinct(next[n].parts)
    <2> HIDE DEF m, old
    <2>1. Distinct(old)
      BY <1>3 DEF GoodTurn, old
    <2> SUFFICES ASSUME NEW k \in 1 .. m + 1, NEW l \in 1 .. m + 1,
                        next[n].parts[k].part = "result", next[n].parts[l].part = "result",
                        next[n].parts[k].id = next[n].parts[l].id
                 PROVE  k = l
      BY <1>7 DEF Distinct
    <2>2. CASE k \in 1 .. m /\ l \in 1 .. m
      BY <1>7, <2>1, <2>2 DEF Distinct
    <2>3. CASE k = m + 1 /\ l \in 1 .. m
      BY <1>7, <1>8, <2>3
    <2>4. CASE k \in 1 .. m /\ l = m + 1
      BY <1>7, <1>8, <2>4
    <2> QED
      BY <1>7, <2>2, <2>3, <2>4
  <1>10. GoodTurn(next[n])
    BY <1>1, <1>7, <1>9 DEF GoodTurn
  <1>11. Alternating(next)
    <2> SUFFICES ASSUME NEW p \in 1 .. n
                 PROVE  GoodTurn(next[p]) /\ (next[p].role = "user" <=> p % 2 = 1)
      BY <1>1 DEF Alternating
    <2>1. CASE p = n
      BY <1>1, <1>3, <1>10, <2>1
    <2>2. CASE p # n
      BY <1>1, <1>21, <2>2
    <2> QED
      BY <2>1, <2>2
  <1>12. Parts(next[n], "result") = Parts(t, "result") \cup {result}
    <2> HIDE DEF m, old
    <2> DEFINE now == next[n].parts
    <2>1. ToSet(now) = ToSet(old) \cup {result}
      <3>1. ToSet(now) = {now[k] : k \in 1 .. m + 1}
        BY <1>7 DEF ToSet
      <3>2. ToSet(old) = {old[k] : k \in 1 .. m}
        BY <1>7 DEF ToSet
      <3> HIDE DEF now
      <3>3. \A k \in 1 .. m : now[k] = old[k]
        BY <1>7 DEF now
      <3>4. now[m + 1] = result
        BY <1>7 DEF now
      <3>5. 1 .. m + 1 = (1 .. m) \cup {m + 1}
        BY <1>7
      <3> QED
        BY <3>1, <3>2, <3>3, <3>4, <3>5
    <2>2. Parts(next[n], "result") = {p \in ToSet(now) : p.part = "result"}
      BY DEF Parts
    <2>3. Parts(t, "result") = {p \in ToSet(old) : p.part = "result"}
      BY DEF Parts, old
    <2> HIDE DEF now
    <2> QED
      BY <2>1, <2>2, <2>3
  <1>13. ResultsAt(next, n) = ResultsAt(turns, n) \cup {result}
    <2>1. ResultsAt(next, n) = Parts(next[n], "result")
      BY <1>1, <1>2 DEF ResultsAt
    <2> QED
      BY <1>6, <1>12, <2>1
  <1>14. Answered(next, n - 1, left, named)
    <2>1. next[n - 1] = turns[n - 1]
      BY <1>0, <1>1, <1>2
    <2>2. IdsOf(ResultsAt(next, n)) = IdsOf(ResultsAt(turns, n)) \cup {result.id}
      BY <1>13 DEF IdsOf
    <2> DEFINE calls == Parts(turns[n - 1], "call")
               results == ResultsAt(turns, n)
    <2>3. /\ IdsOf(calls) = IdsOf(results) \cup pending
          /\ IdsOf(results) \cap pending = {}
          /\ SameNames(calls, results, named)
      BY <1>2, <1>5 DEF Answered
    <2>4. SameNames(calls, results \cup {result}, named)
      BY <1>4, <2>3 DEF SameNames
    <2> HIDE DEF calls, results
    <2>5. /\ IdsOf(calls) = IdsOf(ResultsAt(next, n)) \cup left
          /\ IdsOf(ResultsAt(next, n)) \cap left = {}
      BY <2>2, <2>3 DEF results
    <2>6. SameNames(calls, ResultsAt(next, n), named)
      BY <1>13, <2>4 DEF results
    <2> QED
      BY <1>2, <2>1, <2>5, <2>6 DEF Answered, calls
  <1>15. Linked(next, left, named)
    <2> SUFFICES ASSUME NEW p \in 1 .. n, p % 2 = 0
                 PROVE  Answered(next, p, IF p + 1 >= n THEN left ELSE {}, named)
      BY <1>1 DEF Linked
    <2>1. CASE p = n - 1
      <3>1. (IF p + 1 >= n THEN left ELSE {}) = left
        BY <1>2, <2>1
      <3> QED
        BY <1>14, <2>1, <3>1
    <2>2. CASE p # n - 1
      <3>1. p # n /\ p + 1 < n /\ p + 1 # n /\ p + 1 \in 1 .. n
        BY <1>0, <2>2
      <3>2. next[p] = turns[p] /\ next[p + 1] = turns[p + 1]
        BY <1>1, <3>1
      <3>3. ResultsAt(next, p + 1) = ResultsAt(turns, p + 1)
        BY <1>1, <3>1, <3>2 DEF ResultsAt
      <3>4. Answered(turns, p, {}, named)
        BY <1>0, <1>20, <2>2, <3>1
      <3> QED
        BY <1>0, <3>1, <3>2, <3>3, <3>4 DEF Answered
    <2> QED
      BY <2>1, <2>2
  <1> QED
    BY <1>11, <1>15 DEF next

----------------------------------------------------------------------------
(***************************************************************************)
(* The two loops over the messages, side by side: the one that validates   *)
(* them, and the one that makes turns of them.                             *)
(***************************************************************************)
ValidStep(declared, state, message) ==
  IF state.ok /\ MayFollow(state, message) /\ GoodMessage(state, message, declared)
  THEN After(state, message) ELSE [state EXCEPT !.ok = FALSE]

Validated == INSTANCE FoldProofs WITH Step <- ValidStep

TurnStep(t, output, i) ==
  LET message == t.messages[i]
  IN CASE message.role \in Instructing -> output
       [] message.role = "user"        -> Append(output, [role |-> "user", parts |-> <<Text>>])
       [] message.role = "assistant"   -> Append(output, [role |-> t.assistant, parts |-> Said(message)])
       [] Joins(t.messages, i)         -> [output EXCEPT ![Len(output)].parts = Append(@, t.results[i])]
       [] OTHER                        -> Append(output, [role |-> "user", parts |-> <<t.results[i]>>])

Turned == INSTANCE FoldProofs WITH Step <- TurnStep

\* The two loops as folds.
LEMMA ValidIsFolded ==
  ASSUME NEW messages, NEW declared
  PROVE  ValidMessages(messages, declared)
           <=> LET end == Validated!Fold(declared, Fresh, messages)
               IN end.ok /\ end.turn \in {"after_user", "after_tool_result"}
  BY Zenon DEF ValidMessages, ValidStep, Validated!Fold, Validated!FoldLeft, FoldLeft,
               Validated!MapThenFoldSet, MapThenFoldSet, Max, Validated!Max

LEMMA TranslationIsFolded ==
  ASSUME NEW t
  PROVE  Translation(t.messages, t.assistant, t.results)
           = Turned!Fold(t, <<>>, [i \in DOMAIN t.messages |-> i])
  BY Zenon DEF Translation, TurnStep, Turned!Fold, Turned!FoldLeft, FoldLeft,
               Turned!MapThenFoldSet, MapThenFoldSet, Max, Turned!Max

\* The calls of the first messages.
Before(messages, i) == UNION {ToSet(messages[j].calls) : j \in 1 .. i}

\* The calls before a message, with one message more.
LEMMA BeforeMore ==
  ASSUME NEW messages, Typed(messages), NEW i \in Nat, i + 1 \in 1 .. Len(messages)
  PROVE  /\ Before(messages, i + 1) = Before(messages, i) \cup ToSet(messages[i + 1].calls)
         /\ messages[i + 1] \in MessageType
         /\ messages[i + 1].role # "assistant" => Before(messages, i + 1) = Before(messages, i)
  <1>1. 1 .. i + 1 = (1 .. i) \cup {i + 1}
    OBVIOUS
  <1>2. Before(messages, i + 1) = Before(messages, i) \cup ToSet(messages[i + 1].calls)
    BY <1>1 DEF Before
  <1>3. messages[i + 1] \in MessageType
    BY DEF Typed
  <1>4. ToSet(<<>>) = {}
    BY DEF ToSet
  <1>5. messages[i + 1].role # "assistant" => messages[i + 1].calls = <<>>
    BY <1>3 DEF MessageType
  <1> QED
    BY <1>2, <1>3, <1>4, <1>5

\* A result's name is looked for among the calls before it.
LEMMA NamesAreBefore ==
  ASSUME NEW messages, Typed(messages), NEW i \in 1 .. Len(messages)
  PROVE  NamesOf(messages, i)
           = {call.name : call \in {c \in Before(messages, i) : c.id = messages[i].id}}
  <1> DEFINE part == SubSeq(messages, 1, i)
  <1>1. DOMAIN part = 1 .. i /\ \A j \in 1 .. i : part[j] = messages[j]
    <2>1. Len(messages) \in Nat
      BY DEF Typed
    <2> QED
      BY <2>1 DEF Typed
  <1> HIDE DEF part
  <1>2. Calls(part) = Before(messages, i)
    BY <1>1 DEF Calls, Before
  <1> QED
    BY <1>2 DEF NamesOf, part

OneName(calls) == \A c, d \in calls : c.id = d.id => c.name = d.name

Sourced(calls, turns) ==
  \A p \in DOMAIN turns : \A c \in Parts(turns[p], "call") :
    \E d \in calls : d.id = c.id /\ d.name = c.name

StateFields == {"turn", "ids", "unresolved", "ok"}
IsState(state) == state = [field \in StateFields |-> state[field]]

\* Where each turn of the conversation leaves the output.
Placed(messages, i, state, turns) ==
  /\ state.turn \in Turns
  /\ state.turn = "instruction" => Len(turns) = 0 /\ state.unresolved = {}
  /\ state.turn \in {"after_user", "after_tool_result"} =>
       Len(turns) % 2 = 1 /\ state.unresolved = {}
  /\ state.turn = "after_assistant" => Len(turns) % 2 = 0 /\ state.unresolved = {}
  /\ state.turn = "tool_results" =>
       /\ i # 0 /\ Len(turns) \notin {0, 1}
       /\ messages[i].role = "tool" <=> Len(turns) % 2 = 1

Reached(t, i, state, turns) ==
  /\ IsState(state)
  /\ Alternating(turns)
  /\ Linked(turns, state.unresolved, t.named)
  /\ state.ids = IdsOf(Before(t.messages, i))
  /\ state.unresolved \subseteq state.ids
  /\ OneName(Before(t.messages, i))
  /\ Sourced(Before(t.messages, i), turns)
  /\ \A j \in 1 .. i :
       t.messages[j].role = "tool" => t.messages[j].id \in IdsOf(Before(t.messages, j))
  /\ Placed(t.messages, i, state, turns)

Faithful(t) ==
  /\ Typed(t.messages)
  /\ t.assistant \in {"assistant", "model"}
  /\ \A i \in Results(t.messages) :
       /\ t.results[i].part = "result"
       /\ t.results[i].id = t.messages[i].id
       /\ t.named => t.results[i].name \in NamesOf(t.messages, i)

\* Both loops begin with nothing said and nothing owed.
LEMMA ReachedAtFirst ==
  ASSUME NEW t
  PROVE  Reached(t, 0, Fresh, <<>>)
  <1>1. /\ IsState(Fresh)
        /\ Fresh.ids = {} /\ Fresh.unresolved = {} /\ Fresh.turn = "instruction"
    BY DEF Fresh, IsState, StateFields
  <1>2. 1 .. 0 = {}
    OBVIOUS
  <1>3. Before(t.messages, 0) = {}
    BY <1>2 DEF Before
  <1>4. IsSeq(<<>>) /\ Len(<<>>) = 0 /\ DOMAIN <<>> = {}
    BY EmptyIsSeq
  <1>5. Alternating(<<>>)
    BY <1>4 DEF Alternating
  <1>6. Linked(<<>>, {}, t.named) /\ Sourced({}, <<>>)
    BY <1>4 DEF Linked, Sourced
  <1>7. IdsOf({}) = {} /\ OneName({})
    BY DEF IdsOf, OneName
  <1>8. Placed(t.messages, 0, Fresh, <<>>)
    BY <1>1, <1>4 DEF Placed, Turns
  <1> QED
    BY <1>1, <1>2, <1>3, <1>5, <1>6, <1>7, <1>8 DEF Reached

\* After, by its fields.
LEMMA AfterFields ==
  ASSUME NEW state, IsState(state), NEW message \in MessageType
  PROVE  LET next == After(state, message)
         IN /\ IsState(next) /\ next.ok = state.ok
            /\ message.role \in Instructing => next = state
            /\ message.role = "user" =>
                 next.turn = "after_user" /\ next.ids = state.ids
                   /\ next.unresolved = state.unresolved
            /\ message.role = "assistant" =>
                 /\ next.ids = state.ids \cup CallIds(message.calls)
                 /\ next.unresolved = state.unresolved \cup CallIds(message.calls)
                 /\ next.turn = IF message.calls = <<>> THEN "after_assistant" ELSE "tool_results"
            /\ message.role = "tool" =>
                 /\ next.ids = state.ids
                 /\ next.unresolved = state.unresolved \ {message.id}
                 /\ next.turn = IF state.unresolved = {message.id}
                                THEN "after_tool_result" ELSE "tool_results"
  <1>1. message.role \in {"system", "developer", "user", "assistant", "tool"}
    BY DEF MessageType
  <1>2. CASE message.role \in {"system", "developer"}
    <2>1. After(state, message) = state
      BY <1>2 DEF After, Instructing
    <2> QED
      BY <1>2, <2>1 DEF Instructing
  <1>3. CASE message.role = "user"
    <2>1. After(state, message) = [state EXCEPT !.turn = "after_user"]
      BY <1>3 DEF After, Instructing
    <2> QED
      BY <1>3, <2>1 DEF Instructing, IsState, StateFields
  <1>4. CASE message.role = "assistant"
    <2> DEFINE turn == IF message.calls = <<>> THEN "after_assistant" ELSE "tool_results"
               ids == state.ids \cup CallIds(message.calls)
               unresolved == state.unresolved \cup CallIds(message.calls)
    <2>1. After(state, message)
            = [state EXCEPT !.ids = ids, !.unresolved = unresolved, !.turn = turn]
      BY <1>4 DEF After, Instructing
    <2> HIDE DEF turn, ids, unresolved
    <2>2. /\ IsState(After(state, message)) /\ After(state, message).ok = state.ok
          /\ After(state, message).ids = ids
          /\ After(state, message).unresolved = unresolved
          /\ After(state, message).turn = turn
      BY <2>1 DEF IsState, StateFields
    <2> QED
      BY <1>4, <2>2 DEF Instructing, turn, ids, unresolved
  <1>5. CASE message.role = "tool"
    <2> DEFINE turn == IF state.unresolved = {message.id} THEN "after_tool_result" ELSE "tool_results"
               unresolved == state.unresolved \ {message.id}
    <2>1. After(state, message) = [state EXCEPT !.unresolved = unresolved, !.turn = turn]
      BY <1>5 DEF After, Instructing
    <2> HIDE DEF turn, unresolved
    <2>2. /\ IsState(After(state, message)) /\ After(state, message).ok = state.ok
          /\ After(state, message).ids = state.ids
          /\ After(state, message).unresolved = unresolved
          /\ After(state, message).turn = turn
      BY <2>1 DEF IsState, StateFields
    <2> QED
      BY <1>5, <2>2 DEF Instructing, turn, unresolved
  <1> QED
    BY <1>1, <1>2, <1>3, <1>4, <1>5

\* One message more, under the validation.
Goes(t, i, state, turns, declared) ==
  /\ Faithful(t)
  /\ i \in Nat /\ i + 1 \in 1 .. Len(t.messages)
  /\ Reached(t, i, state, turns)
  /\ MayFollow(state, t.messages[i + 1])
  /\ GoodMessage(state, t.messages[i + 1], declared)

\* What was said of the messages before stays.
LEMMA RestStays ==
  ASSUME NEW t, NEW i, NEW state, NEW turns, NEW declared, Goes(t, i, state, turns, declared),
         t.messages[i + 1].role = "tool" =>
           t.messages[i + 1].id \in IdsOf(Before(t.messages, i + 1))
  PROVE  \A j \in 1 .. i + 1 :
           t.messages[j].role = "tool" => t.messages[j].id \in IdsOf(Before(t.messages, j))
  <1>1. \A j \in 1 .. i + 1 : j \in 1 .. i \/ j = i + 1
    BY DEF Goes
  <1> QED
    BY <1>1 DEF Goes, Reached

Turn(role, parts) == [role |-> role, parts |-> parts]
Only(part) == <<part>>

\* TurnStep and MayFollow, by the role.
LEMMA TurnStepCases ==
  ASSUME NEW t, NEW turns, NEW i, t.messages[i].role \in {"system", "developer", "user", "assistant", "tool"}
  PROVE  /\ t.messages[i].role \in Instructing => TurnStep(t, turns, i) = turns
         /\ t.messages[i].role = "user" =>
              TurnStep(t, turns, i) = Append(turns, Turn("user", Only(Text)))
         /\ t.messages[i].role = "assistant" =>
              TurnStep(t, turns, i)
                = Append(turns, Turn(t.assistant, Said(t.messages[i])))
         /\ t.messages[i].role = "tool" /\ Joins(t.messages, i) =>
              TurnStep(t, turns, i) = ResultJoined(turns, t.results[i])
         /\ t.messages[i].role = "tool" /\ ~Joins(t.messages, i) =>
              TurnStep(t, turns, i) = Append(turns, Turn("user", Only(t.results[i])))
  <1> DEFINE role == t.messages[i].role
             user == Append(turns, Turn("user", Only(Text)))
             assistant == Append(turns, Turn(t.assistant, Said(t.messages[i])))
             joins == Joins(t.messages, i)
             first == Append(turns, Turn("user", Only(t.results[i])))
             joined == ResultJoined(turns, t.results[i])
  <1>1. TurnStep(t, turns, i) = CASE role \in Instructing -> turns
                                  [] role = "user"        -> user
                                  [] role = "assistant"   -> assistant
                                  [] joins                -> joined
                                  [] OTHER                -> first
    BY DEF TurnStep, ResultJoined, Turn, Only
  <1>2. joins => role = "tool"
    BY DEF Joins
  <1> HIDE DEF role, user, assistant, joins, first, joined
  <1>3. role \in {"system", "developer", "user", "assistant", "tool"}
    BY DEF role
  <1>4. CASE role \in {"system", "developer"}
    BY <1>1, <1>2, <1>4 DEF Instructing, role
  <1>5. CASE role = "user"
    BY <1>1, <1>2, <1>5 DEF Instructing, role, user
  <1>6. CASE role = "assistant"
    BY <1>1, <1>2, <1>6 DEF Instructing, role, assistant
  <1>7. CASE role = "tool"
    BY <1>1, <1>2, <1>7 DEF Instructing, role, joins, joined, first
  <1> QED
    BY <1>3, <1>4, <1>5, <1>6, <1>7

LEMMA MayFollowCases ==
  ASSUME NEW state, NEW message, message.role \in {"system", "developer", "user", "assistant", "tool"},
         MayFollow(state, message)
  PROVE  /\ message.role \in Instructing => state.turn = "instruction"
         /\ message.role = "user" => state.turn \in {"instruction", "after_assistant"}
         /\ message.role = "assistant" => state.turn \in {"after_user", "after_tool_result"}
         /\ message.role = "tool" => state.turn \in {"tool_results", "after_tool_result"}
  BY DEF MayFollow, Instructing

\* A message goes by, in both loops: an instruction makes no turn.
LEMMA InstructionGoes ==
  ASSUME NEW t, NEW i, NEW state, NEW turns, NEW declared, Goes(t, i, state, turns, declared),
         t.messages[i + 1].role \in Instructing
  PROVE  Reached(t, i + 1, After(state, t.messages[i + 1]), TurnStep(t, turns, i + 1))
  <1> DEFINE message == t.messages[i + 1]
  <1>1. /\ Before(t.messages, i + 1) = Before(t.messages, i)
        /\ message \in MessageType
    BY BeforeMore DEF Goes, Faithful, Instructing
  <1>2. After(state, message) = state
    BY <1>1, AfterFields DEF Goes, Reached
  <1>0. message.role \in {"system", "developer", "user", "assistant", "tool"}
    BY <1>1 DEF MessageType
  <1>3. TurnStep(t, turns, i + 1) = turns
    BY <1>0, TurnStepCases
  <1>4. state.turn = "instruction"
    BY <1>0, MayFollowCases DEF Goes
  <1>5. Placed(t.messages, i + 1, state, turns)
    BY <1>4 DEF Goes, Reached, Placed
  <1>6. message.role # "tool"
    BY DEF Instructing
  <1>7. \A j \in 1 .. i + 1 :
          t.messages[j].role = "tool" => t.messages[j].id \in IdsOf(Before(t.messages, j))
    BY <1>6, RestStays
  <1> QED
    BY <1>1, <1>2, <1>3, <1>5, <1>7 DEF Goes, Reached

\* A turn of one part.
LEMMA OnePart ==
  ASSUME NEW role, NEW part
  PROVE  LET t == Turn(role, Only(part))
         IN /\ GoodTurn(t) /\ t.role = role
            /\ \A kind : Parts(t, kind) = {p \in {part} : p.part = kind}
  <1> DEFINE parts == <<part>>
             t == [role |-> role, parts |-> parts]
  <1>1. parts = Append(<<>>, part)
    OBVIOUS
  <1>2. /\ IsSeq(parts) /\ Len(parts) = 1 /\ DOMAIN parts = {1} /\ parts[1] = part
    <2>1. parts \in Seq({part})
      OBVIOUS
    <2>2. IsSeq(parts)
      BY <2>1 DEF IsSeq
    <2>3. Len(parts) = 1 /\ DOMAIN parts = {1} /\ parts[1] = part
      OBVIOUS
    <2> QED
      BY <2>2, <2>3
  <1> HIDE DEF parts
  <1>3. IsTurn(t) /\ t.role = role /\ t.parts = parts
    BY DEF IsTurn, TurnFields
  <1> HIDE DEF t
  <1>4. Distinct(t.parts)
    BY <1>2, <1>3 DEF Distinct
  <1>5. GoodTurn(t)
    <2>1. Len(t.parts) # 0 /\ IsSeq(t.parts)
      <3>1. Len(parts) # 0
        BY <1>2
      <3> QED
        BY <1>2, <1>3, <3>1, Zenon
    <2> QED
      BY <1>3, <1>4, <2>1 DEF GoodTurn
  <1>6. ToSet(t.parts) = {part}
    BY <1>2, <1>3 DEF ToSet
  <1>7. \A kind : Parts(t, kind) = {p \in {part} : p.part = kind}
    BY <1>6 DEF Parts
  <1> QED
    BY <1>3, <1>5, <1>7 DEF t, parts, Turn, Only

\* Turns of which the last is new.
LEMMA SourcedMore ==
  ASSUME NEW turns, Alternating(turns), NEW t, NEW calls, NEW more, calls \subseteq more,
         Sourced(calls, turns),
         \A c \in Parts(t, "call") : \E d \in more : d.id = c.id /\ d.name = c.name
  PROVE  Sourced(more, Append(turns, t))
  <1> DEFINE n == Len(turns)
             next == Append(turns, t)
  <1>1. /\ n \in Nat /\ DOMAIN turns = 1 .. n /\ DOMAIN next = 1 .. n + 1
        /\ \A i \in 1 .. n : next[i] = turns[i]
        /\ next[n + 1] = t
    BY AppendAny DEF Alternating
  <1> HIDE DEF n, next
  <1> SUFFICES ASSUME NEW p \in 1 .. n + 1, NEW c \in Parts(next[p], "call")
               PROVE  \E d \in more : d.id = c.id /\ d.name = c.name
    BY <1>1 DEF Sourced, next
  <1>2. CASE p \in 1 .. n
    BY <1>1, <1>2 DEF Sourced
  <1>3. CASE p = n + 1
    BY <1>1, <1>3
  <1> QED
    BY <1>1, <1>2, <1>3

\* A question makes a turn of its own, as nothing is owed then.
LEMMA UserGoes ==
  ASSUME NEW t, NEW i, NEW state, NEW turns, NEW declared, Goes(t, i, state, turns, declared),
         t.messages[i + 1].role = "user"
  PROVE  Reached(t, i + 1, After(state, t.messages[i + 1]), TurnStep(t, turns, i + 1))
  <1> DEFINE message == t.messages[i + 1]
             next == After(state, message)
             turn == Turn("user", Only(Text))
             more == Append(turns, turn)
             before == Before(t.messages, i)
  <1>1. /\ Before(t.messages, i + 1) = before
        /\ message \in MessageType
    BY BeforeMore DEF Goes, Faithful
  <1>2. /\ IsState(next) /\ next.turn = "after_user"
        /\ next.ids = state.ids /\ next.unresolved = state.unresolved
    BY <1>1, AfterFields DEF Goes, Reached
  <1>0. message.role \in {"system", "developer", "user", "assistant", "tool"}
    BY <1>1 DEF MessageType
  <1>3. TurnStep(t, turns, i + 1) = more
    BY <1>0, TurnStepCases
  <1>4. state.turn \in {"instruction", "after_assistant"}
    BY <1>0, MayFollowCases DEF Goes
  <1>5. /\ IsState(state) /\ Alternating(turns)
        /\ Linked(turns, state.unresolved, t.named)
        /\ state.ids = IdsOf(before)
        /\ state.unresolved \subseteq state.ids
        /\ OneName(before)
        /\ Sourced(before, turns)
        /\ Placed(t.messages, i, state, turns)
    BY DEF Goes, Reached
  <1>6. state.unresolved = {} /\ Len(turns) % 2 = 0
    BY <1>4, <1>5 DEF Placed
  <1>7. /\ GoodTurn(turn) /\ turn.role = "user"
        /\ \A kind : Parts(turn, kind) = {p \in {Text} : p.part = kind}
    BY OnePart
  <1>8. Parts(turn, "result") = {} /\ Parts(turn, "call") = {}
    BY <1>7 DEF Text, Part
  <1> HIDE DEF turn, next, before, message
  <1>9. Len(turns) \in Nat /\ Len(more) = Len(turns) + 1
    BY <1>5, AppendAny DEF Alternating
  <1>10. (Len(turns) + 1) % 2 = 1
    BY <1>6, <1>9
  <1>11. Alternating(more)
    BY <1>5, <1>7, <1>10, TurnMore
  <1>12. Linked(more, {}, t.named)
    <2>1. IdsOf({}) = {} /\ \A calls, named : SameNames(calls, {}, named)
      BY DEF IdsOf, SameNames
    <2>2. Linked(more, {} \ IdsOf(Parts(turn, "result")), t.named)
      BY <1>5, <1>6, <1>8, <2>1, UserTurn
    <2> QED
      BY <2>2
  <1>13. Sourced(before, more)
    BY <1>5, <1>8, SourcedMore
  <1>14. Placed(t.messages, i + 1, next, more)
    BY <1>2, <1>6, <1>9, <1>10 DEF Placed, Turns
  <1>15. \A j \in 1 .. i + 1 :
           t.messages[j].role = "tool" => t.messages[j].id \in IdsOf(Before(t.messages, j))
    <2>1. t.messages[i + 1].role # "tool"
      OBVIOUS
    <2> QED
      BY <2>1, RestStays
  <1>16. Reached(t, i + 1, next, more)
    BY <1>1, <1>2, <1>5, <1>6, <1>11, <1>12, <1>13, <1>14, <1>15 DEF Reached
  <1> QED
    BY <1>3, <1>16 DEF next, message

\* What an assistant says: its calls by id and name.
LEMMA SaidParts ==
  ASSUME NEW message \in MessageType, message.content \/ message.calls # <<>>, NEW role
  PROVE  /\ GoodTurn(Turn(role, Said(message)))
         /\ Turn(role, Said(message)).role = role
         /\ Parts(Turn(role, Said(message)), "call")
              = {Part("call", c.id, c.name) : c \in ToSet(message.calls)}
  <1> DEFINE calls == message.calls
             n == Len(calls)
             head == IF message.content THEN <<Text>> ELSE <<>>
             tail == [k \in DOMAIN calls |-> Part("call", calls[k].id, calls[k].name)]
             parts == head \o tail
             CallParts == {Part("call", c.id, c.name) : c \in ToSet(calls)}
             AllParts == {Text} \cup CallParts
             t == Turn(role, parts)
  <1>1. /\ calls \in Seq(CallType) /\ n \in Nat /\ DOMAIN calls = 1 .. n
        /\ message.content \in BOOLEAN
    BY DEF MessageType
  <1>2. Said(message) = parts
    BY DEF Said
  <1>3. \A k \in 1 .. n : Part("call", calls[k].id, calls[k].name) \in CallParts
    BY <1>1 DEF ToSet
  <1>4. tail \in Seq(CallParts) /\ Len(tail) = n
    <2>1. tail \in [1 .. n -> CallParts]
      BY <1>1, <1>3
    <2> HIDE DEF tail, CallParts
    <2> QED
      BY <1>1, <2>1
  <1>5. Text.part = "text" /\ \A c : Part("call", c.id, c.name).part = "call"
    BY DEF Text, Part
  <1>20. \A c \in CallParts : c.part = "call"
    BY <1>5
  <1>21. Text.part # "call" /\ Text.part # "result"
    BY <1>5
  <1>22. \A k \in 1 .. n : tail[k] \in CallParts
    BY <1>4
  <1>23. CallParts = {tail[k] : k \in 1 .. n}
    BY <1>1 DEF ToSet
  <1>6. head \in Seq({Text}) /\ Len(head) \in {0, 1} /\ (message.content => Len(head) = 1)
    <2>1. \A x : <<x>> \in Seq({x}) /\ Len(<<x>>) = 1
      OBVIOUS
    <2>2. <<>> \in Seq({Text}) /\ Len(<<>>) = 0
      BY EmptySeq
    <2>3. CASE message.content
      <3>1. head = <<Text>>
        BY <2>3
      <3> HIDE DEF head
      <3> QED
        BY <2>1, <3>1
    <2>4. CASE ~message.content
      <3>1. head = <<>>
        BY <2>4
      <3> HIDE DEF head
      <3> QED
        BY <2>2, <2>4, <3>1
    <2> QED
      BY <2>3, <2>4
  <1>7. n # 0 <=> calls # <<>>
    BY <1>1, EmptySeq
  <1> HIDE DEF calls, n, head, tail, CallParts
  <1>8. head \in Seq(AllParts) /\ tail \in Seq(AllParts)
    BY <1>4, <1>6, SeqMonotonic
  <1> HIDE DEF AllParts
  <1>9. /\ parts \in Seq(AllParts) /\ Len(parts) = Len(head) + n
        /\ \A k \in 1 .. Len(head) : parts[k] = head[k]
        /\ \A k \in 1 .. n : parts[k + Len(head)] = tail[k]
    <2>1. /\ parts \in Seq(AllParts) /\ Len(parts) = Len(head) + Len(tail)
          /\ \A k \in 1 .. Len(head) + Len(tail) :
               parts[k] = IF k <= Len(head) THEN head[k] ELSE tail[k - Len(head)]
      BY <1>8, ConcatProperties
    <2> HIDE DEF parts
    <2> DEFINE h == Len(head)
    <2>2. h \in Nat /\ Len(tail) = n /\ n \in Nat
      BY <1>1, <1>4, <1>6
    <2>3. ASSUME NEW k \in 1 .. h PROVE parts[k] = head[k]
      BY <2>1, <2>2, <2>3
    <2>4. ASSUME NEW k \in 1 .. n PROVE parts[k + h] = tail[k]
      <3>1. k + h \in 1 .. h + n /\ ~(k + h <= h) /\ (k + h) - h = k
        BY <2>2
      <3> QED
        BY <2>1, <2>2, <3>1
    <2> QED
      BY <2>1, <2>2, <2>3, <2>4
  <1> HIDE DEF parts
  <1>10. DOMAIN parts = 1 .. Len(head) + n /\ Len(parts) # 0
    <2>1. Len(head) + n # 0
      <3>1. Len(head) = 1 \/ n # 0
        BY <1>6, <1>7 DEF calls
      <3>2. Len(head) \in {0, 1} /\ n \in Nat
        BY <1>1, <1>6
      <3>3. \A h \in {0, 1}, m \in Nat : h = 1 \/ m # 0 => h + m # 0
        OBVIOUS
      <3> QED
        BY <3>1, <3>2, <3>3, Zenon
    <2> QED
      BY <1>9, <2>1
  <1>11. \A k \in DOMAIN parts : parts[k] = Text \/ \E l \in 1 .. n : parts[k] = tail[l]
    <2> SUFFICES ASSUME NEW k \in 1 .. Len(head) + n
                 PROVE  parts[k] = Text \/ \E l \in 1 .. n : parts[k] = tail[l]
      BY <1>10
    <2>1. CASE k \in 1 .. Len(head)
      BY <1>6, <1>9, <2>1
    <2>2. CASE k \notin 1 .. Len(head)
      <3>1. k - Len(head) \in 1 .. n /\ (k - Len(head)) + Len(head) = k
        BY <1>1, <1>6, <2>2
      <3> QED
        BY <1>9, <3>1
    <2> QED
      BY <2>1, <2>2
  <1>12. IsTurn(t) /\ t.role = role /\ t.parts = parts
    BY DEF IsTurn, TurnFields, Turn
  <1> HIDE DEF t
  <1>13. Distinct(parts)
    BY <1>11, <1>20, <1>21, <1>22 DEF Distinct
  <1>14. GoodTurn(t)
    BY <1>9, <1>10, <1>12, <1>13 DEF GoodTurn, IsSeq
  <1>15. Parts(t, "call") = CallParts
    <2>1. Parts(t, "call") = {p \in {parts[k] : k \in DOMAIN parts} : p.part = "call"}
      BY <1>12 DEF Parts, ToSet
    <2>2. ASSUME NEW l \in 1 .. n PROVE tail[l] \in {parts[k] : k \in DOMAIN parts}
      <3>1. l + Len(head) \in 1 .. Len(head) + n
        BY <1>1, <1>6
      <3> QED
        BY <1>9, <1>10, <3>1
    <2>3. CallParts \subseteq Parts(t, "call")
      BY <1>20, <1>23, <2>1, <2>2
    <2>4. Parts(t, "call") \subseteq CallParts
      BY <1>11, <1>21, <1>22, <2>1
    <2> QED
      BY <2>3, <2>4
  <1> QED
    BY <1>2, <1>12, <1>14, <1>15 DEF t, CallParts, calls

\* Calls with ids of their own keep their names apart.
LEMMA CallsMore ==
  ASSUME NEW calls \in Seq(CallType), NEW ids, NEW declared, GoodCalls(calls, ids, declared),
         NEW before, IdsOf(before) = ids, OneName(before)
  PROVE  /\ OneName(before \cup ToSet(calls))
         /\ CallIds(calls) = IdsOf(ToSet(calls))
         /\ IdsOf(before \cup ToSet(calls)) = ids \cup CallIds(calls)
         /\ calls = <<>> => CallIds(calls) = {}
  <1>1. CallIds(calls) = IdsOf(ToSet(calls))
    BY DEF CallIds, IdsOf, ToSet
  <1>2. \A c, d \in ToSet(calls) : c.id = d.id => c = d
    BY DEF GoodCalls, ToSet
  <1>3. \A c \in before, d \in ToSet(calls) : c.id # d.id
    BY <1>1 DEF GoodCalls, IdsOf
  <1>4. OneName(before \cup ToSet(calls))
    BY <1>2, <1>3 DEF OneName
  <1>5. IdsOf(before \cup ToSet(calls)) = IdsOf(before) \cup IdsOf(ToSet(calls))
    BY DEF IdsOf
  <1>6. calls = <<>> => CallIds(calls) = {}
    BY DEF CallIds
  <1> QED
    BY <1>1, <1>4, <1>5, <1>6

\* An answer makes a turn, and owes a result for each of its calls.
LEMMA AssistantGoes ==
  ASSUME NEW t, NEW i, NEW state, NEW turns, NEW declared, Goes(t, i, state, turns, declared),
         t.messages[i + 1].role = "assistant"
  PROVE  Reached(t, i + 1, After(state, t.messages[i + 1]), TurnStep(t, turns, i + 1))
  <1> DEFINE message == t.messages[i + 1]
             next == After(state, message)
             turn == Turn(t.assistant, Said(message))
             more == Append(turns, turn)
             before == Before(t.messages, i)
             calls == ToSet(message.calls)
  <1>1. /\ Before(t.messages, i + 1) = before \cup calls
        /\ message \in MessageType
    BY BeforeMore DEF Goes, Faithful
  <1>2. /\ IsState(next)
        /\ next.ids = state.ids \cup CallIds(message.calls)
        /\ next.unresolved = state.unresolved \cup CallIds(message.calls)
        /\ next.turn = IF message.calls = <<>> THEN "after_assistant" ELSE "tool_results"
    BY <1>1, AfterFields DEF Goes, Reached
  <1>0. message.role \in {"system", "developer", "user", "assistant", "tool"}
    BY <1>1 DEF MessageType
  <1>3. TurnStep(t, turns, i + 1) = more
    BY <1>0, TurnStepCases
  <1>4. state.turn \in {"after_user", "after_tool_result"}
    BY <1>0, MayFollowCases DEF Goes
  <1>5. /\ IsState(state) /\ Alternating(turns)
        /\ Linked(turns, state.unresolved, t.named)
        /\ state.ids = IdsOf(before)
        /\ state.unresolved \subseteq state.ids
        /\ OneName(before)
        /\ Sourced(before, turns)
        /\ Placed(t.messages, i, state, turns)
    BY DEF Goes, Reached
  <1>6. state.unresolved = {} /\ Len(turns) % 2 = 1
    BY <1>4, <1>5 DEF Placed
  <1>20. GoodMessage(state, message, declared) /\ i \in Nat
    BY DEF Goes
  <1>21. /\ message.content \/ message.calls # <<>>
         /\ GoodCalls(message.calls, state.ids, declared)
    BY <1>20 DEF GoodMessage
  <1>22. message.calls \in Seq(CallType)
    BY <1>1 DEF MessageType
  <1>23. /\ OneName(before \cup calls)
         /\ CallIds(message.calls) = IdsOf(calls)
         /\ IdsOf(before \cup calls) = state.ids \cup CallIds(message.calls)
         /\ message.calls = <<>> => CallIds(message.calls) = {}
    BY <1>5, <1>21, <1>22, CallsMore
  <1>7. /\ GoodTurn(turn) /\ turn.role = t.assistant
        /\ Parts(turn, "call") = {Part("call", c.id, c.name) : c \in calls}
    BY <1>1, <1>21, SaidParts
  <1>24. t.assistant # "user"
    <2>1. t.assistant \in {"assistant", "model"}
      BY DEF Goes, Faithful
    <2> QED
      BY <2>1
  <1>30. message.role # "tool" /\ message.role = "assistant"
    OBVIOUS
  <1> HIDE DEF turn, next, before, message, calls
  <1>8. IdsOf(Parts(turn, "call")) = IdsOf(calls)
    <2>1. \A c : Part("call", c.id, c.name).id = c.id
      BY DEF Part
    <2> DEFINE native(c) == Part("call", c.id, c.name)
    <2>2. Parts(turn, "call") = {native(c) : c \in calls} /\ \A c : native(c).id = c.id
      BY <1>7, <2>1
    <2> HIDE DEF native
    <2> QED
      BY <2>2 DEF IdsOf
  <1>9. Len(turns) \in Nat /\ Len(more) = Len(turns) + 1
    BY <1>5, AppendAny DEF Alternating
  <1>10. (Len(turns) + 1) % 2 = 0
    BY <1>6, <1>9
  <1>11. Alternating(more)
    <2>1. turn.role = "user" <=> (Len(turns) + 1) % 2 = 1
      BY <1>7, <1>10, <1>24
    <2> QED
      BY <1>5, <1>7, <2>1, TurnMore
  <1>12. Linked(more, IdsOf(calls), t.named)
    BY <1>5, <1>6, <1>8, ModelTurn
  <1>13. Sourced(before \cup calls, more)
    <2>1. \A c \in Parts(turn, "call") : \E d \in before \cup calls : d.id = c.id /\ d.name = c.name
      BY <1>7 DEF Part
    <2> QED
      BY <1>5, <2>1, SourcedMore
  <1>14. Placed(t.messages, i + 1, next, more)
    <2>0. t.messages[i + 1].role # "tool" /\ i + 1 # 0
      BY <1>20, <1>30 DEF message
    <2>1. CASE message.calls = <<>>
      <3>1. next.turn = "after_assistant" /\ next.unresolved = {}
        BY <1>2, <1>6, <1>23, <2>1
      <3> QED
        BY <1>9, <1>10, <3>1 DEF Placed, Turns
    <2>2. CASE message.calls # <<>>
      <3>1. next.turn = "tool_results"
        BY <1>2, <2>2
      <3>2. Len(more) \notin {0, 1} /\ Len(more) % 2 = 0
        BY <1>6, <1>9, <1>10
      <3> QED
        BY <2>0, <3>1, <3>2 DEF Placed, Turns
    <2> QED
      BY <2>1, <2>2
  <1>15. \A j \in 1 .. i + 1 :
           t.messages[j].role = "tool" => t.messages[j].id \in IdsOf(Before(t.messages, j))
    <2>1. t.messages[i + 1].role # "tool"
      BY <1>30 DEF message
    <2> QED
      BY <2>1, RestStays
  <1>16. next.unresolved = IdsOf(calls) /\ next.ids = IdsOf(before \cup calls)
    BY <1>2, <1>6, <1>23
  <1>17. next.unresolved \subseteq next.ids
    BY <1>2, <1>6
  <1>18. Reached(t, i + 1, next, more)
    BY <1>1, <1>2, <1>11, <1>12, <1>13, <1>14, <1>15, <1>16, <1>17, <1>23 DEF Reached
  <1> QED
    BY <1>3, <1>18 DEF next, message

\* The name of a result is that of the call it answers.
LEMMA ResultNamed ==
  ASSUME NEW t, NEW i, NEW state, NEW turns, NEW declared, Goes(t, i, state, turns, declared),
         t.messages[i + 1].role = "tool", NEW p \in DOMAIN turns
  PROVE  SameNames(Parts(turns[p], "call"), {t.results[i + 1]}, t.named)
  <1> DEFINE result == t.results[i + 1]
             before == Before(t.messages, i)
  <1>1. Typed(t.messages) /\ i \in Nat /\ i + 1 \in 1 .. Len(t.messages)
    BY DEF Goes, Faithful
  <1>2. Before(t.messages, i + 1) = before
    BY <1>1, BeforeMore
  <1>3. i + 1 \in Results(t.messages)
    BY <1>1 DEF Results, Typed
  <1>4. result.id = t.messages[i + 1].id /\ (t.named => result.name \in NamesOf(t.messages, i + 1))
    BY <1>3 DEF Goes, Faithful
  <1>5. NamesOf(t.messages, i + 1) = {d.name : d \in {c \in before : c.id = t.messages[i + 1].id}}
    BY <1>1, <1>2, NamesAreBefore
  <1>6. OneName(before) /\ Sourced(before, turns)
    BY DEF Goes, Reached
  <1> HIDE DEF before, result
  <1> SUFFICES ASSUME t.named, NEW c \in Parts(turns[p], "call"), c.id = result.id
               PROVE  c.name = result.name
    BY DEF SameNames, result
  <1>7. PICK d \in before : d.id = result.id /\ d.name = result.name
    BY <1>4, <1>5
  <1>8. PICK e \in before : e.id = c.id /\ e.name = c.name
    BY <1>6 DEF Sourced
  <1> QED
    BY <1>6, <1>7, <1>8 DEF OneName

LEMMA SourcedJoined ==
  ASSUME NEW turns, Alternating(turns), Len(turns) \in Nat, Len(turns) # 0,
         NEW result, result.part = "result", NEW calls, Sourced(calls, turns)
  PROVE  Sourced(calls, ResultJoined(turns, result))
  <1> DEFINE n == Len(turns)
             old == turns[n].parts
             m == Len(old)
             next == ResultJoined(turns, result)
  <1>1. /\ DOMAIN next = 1 .. n /\ DOMAIN turns = 1 .. n
        /\ \A i \in 1 .. n : i # n => next[i] = turns[i]
        /\ next[n].parts = Append(old, result)
    BY JoinedTurn
  <1>2. n \in 1 .. n
    OBVIOUS
  <1>3. IsSeq(old)
    BY <1>1, <1>2 DEF Alternating, GoodTurn
  <1> HIDE DEF n, next
  <1>4. /\ m \in Nat /\ DOMAIN old = 1 .. m
        /\ DOMAIN next[n].parts = 1 .. m + 1
        /\ \A k \in 1 .. m : next[n].parts[k] = old[k]
        /\ next[n].parts[m + 1] = result
    BY <1>1, <1>3, AppendAny
  <1> DEFINE now == next[n].parts
  <1>5. ASSUME NEW c \in Parts(next[n], "call") PROVE c \in Parts(turns[n], "call")
    <2>1. PICK k \in DOMAIN now : c = now[k] /\ c.part = "call"
      BY DEF Parts, ToSet
    <2> HIDE DEF old, m
    <2>2. k # m + 1
      BY <1>4, <2>1
    <2>3. k \in 1 .. m
      BY <1>4, <2>1, <2>2
    <2>4. k \in DOMAIN old /\ c = old[k]
      BY <1>4, <2>1, <2>3
    <2> QED
      BY <2>1, <2>4 DEF Parts, ToSet, old
  <1> HIDE DEF now, old, m
  <1> SUFFICES ASSUME NEW p \in 1 .. n, NEW c \in Parts(next[p], "call")
               PROVE  \E d \in calls : d.id = c.id /\ d.name = c.name
    BY <1>1 DEF Sourced, next
  <1>6. CASE p = n
    BY <1>1, <1>2, <1>5, <1>6 DEF Sourced
  <1>7. CASE p # n
    BY <1>1, <1>7 DEF Sourced
  <1> QED
    BY <1>6, <1>7

\* A result pays for one call, in the turn of the results before it or in a new one.
LEMMA ToolGoes ==
  ASSUME NEW t, NEW i, NEW state, NEW turns, NEW declared, Goes(t, i, state, turns, declared),
         t.messages[i + 1].role = "tool"
  PROVE  Reached(t, i + 1, After(state, t.messages[i + 1]), TurnStep(t, turns, i + 1))
  <1> DEFINE message == t.messages[i + 1]
             next == After(state, message)
             result == t.results[i + 1]
             more == TurnStep(t, turns, i + 1)
             before == Before(t.messages, i)
             n == Len(turns)
  <1>0. /\ Typed(t.messages) /\ i \in Nat /\ i + 1 \in 1 .. Len(t.messages)
        /\ GoodMessage(state, message, declared)
    BY DEF Goes, Faithful
  <1>1. /\ Before(t.messages, i + 1) = before
        /\ message \in MessageType
    BY <1>0, BeforeMore
  <1>2. /\ IsState(next)
        /\ next.ids = state.ids /\ next.unresolved = state.unresolved \ {message.id}
        /\ next.turn = IF state.unresolved = {message.id} THEN "after_tool_result" ELSE "tool_results"
    BY <1>1, AfterFields DEF Goes, Reached
  <1>3. message.role \in {"system", "developer", "user", "assistant", "tool"}
    BY <1>1 DEF MessageType
  <1>4. state.turn \in {"tool_results", "after_tool_result"}
    BY <1>3, MayFollowCases DEF Goes
  <1>5. /\ IsState(state) /\ Alternating(turns)
        /\ Linked(turns, state.unresolved, t.named)
        /\ state.ids = IdsOf(before)
        /\ state.unresolved \subseteq state.ids
        /\ OneName(before)
        /\ Sourced(before, turns)
        /\ Placed(t.messages, i, state, turns)
    BY DEF Goes, Reached
  <1>6. message.id \in state.unresolved
    BY <1>0 DEF GoodMessage
  <1>7. state.turn = "tool_results"
    BY <1>4, <1>5, <1>6 DEF Placed
  <1>8. /\ i # 0 /\ n \notin {0, 1}
        /\ t.messages[i].role = "tool" <=> n % 2 = 1
    BY <1>5, <1>7 DEF Placed
  <1>9. n \in Nat /\ DOMAIN turns = 1 .. n
    BY <1>5 DEF Alternating, IsSeq
  <1>10. result.part = "result" /\ result.id = message.id
    <2>1. i + 1 \in Results(t.messages)
      BY <1>0 DEF Results, Typed
    <2> QED
      BY <2>1 DEF Goes, Faithful
  <1>11. \A p \in DOMAIN turns : SameNames(Parts(turns[p], "call"), {result}, t.named)
    BY ResultNamed
  <1>12. Joins(t.messages, i + 1) <=> n % 2 = 1
    <2>1. i + 1 > 1 /\ (i + 1) - 1 = i
      BY <1>0, <1>8
    <2> QED
      BY <1>8, <2>1 DEF Joins
  <1> DEFINE Grown ==
               /\ Alternating(more)
               /\ Linked(more, state.unresolved \ {message.id}, t.named)
               /\ Sourced(before, more)
               /\ Len(more) \notin {0, 1} /\ Len(more) % 2 = 1
  <1>13. ASSUME n % 2 = 1 PROVE Grown
    <2>1. more = ResultJoined(turns, result)
      BY <1>3, <1>12, <1>13, TurnStepCases
    <2>2. n - 1 \in DOMAIN turns /\ n # 0 /\ n # 1
      BY <1>8, <1>9
    <2>3. SameNames(Parts(turns[n - 1], "call"), {result}, t.named)
      BY <1>11, <2>2
    <2>4. Alternating(more) /\ Linked(more, state.unresolved \ {message.id}, t.named)
      <3>1. /\ Alternating(ResultJoined(turns, result))
            /\ Linked(ResultJoined(turns, result), state.unresolved \ {result.id}, t.named)
        BY <1>5, <1>6, <1>10, <1>13, <2>2, <2>3, ResultJoins
      <3> QED
        BY <1>10, <2>1, <3>1
    <2>5. Sourced(before, more)
      BY <1>5, <1>9, <1>10, <2>1, <2>2, SourcedJoined
    <2>6. Len(more) = n
      BY <1>5, <1>9, <2>1, <2>2, JoinedTurn
    <2> QED
      BY <1>8, <1>13, <2>4, <2>5, <2>6
  <1>14. ASSUME n % 2 # 1 PROVE Grown
    <2> DEFINE turn == Turn("user", Only(result))
               R == Parts(turn, "result")
    <2>0. n % 2 = 0 /\ (n + 1) % 2 = 1 /\ n \in DOMAIN turns
      BY <1>8, <1>9, <1>14
    <2>1. more = Append(turns, turn)
      BY <1>3, <1>12, <1>14, TurnStepCases
    <2>2. /\ GoodTurn(turn) /\ turn.role = "user"
          /\ \A kind : Parts(turn, kind) = {p \in {result} : p.part = kind}
      BY OnePart
    <2>3. R = {result} /\ Parts(turn, "call") = {}
      BY <1>10, <2>2
    <2> HIDE DEF turn
    <2>4. IdsOf(R) = {message.id}
      BY <1>10, <2>3 DEF IdsOf
    <2>5. Alternating(more)
      <3>1. turn.role = "user" <=> (n + 1) % 2 = 1
        BY <2>0, <2>2
      <3>2. Alternating(Append(turns, turn))
        BY <1>5, <2>2, <3>1, TurnMore
      <3> QED
        BY <2>1, <3>2
    <2>6. SameNames(Parts(turns[n], "call"), R, t.named)
      BY <1>11, <2>0, <2>3
    <2>7. Linked(more, state.unresolved \ {message.id}, t.named)
      <3>1. IdsOf(R) \subseteq state.unresolved
        BY <1>6, <2>4
      <3>2. Linked(Append(turns, turn), state.unresolved \ IdsOf(R), t.named)
        BY <1>5, <2>0, <2>6, <3>1, UserTurn
      <3> QED
        BY <2>1, <2>4, <3>2
    <2>8. Sourced(before, more)
      BY <1>5, <2>1, <2>3, SourcedMore
    <2>9. Len(more) = n + 1
      BY <1>5, <2>1, AppendAny DEF Alternating
    <2>10. Len(more) \notin {0, 1} /\ Len(more) % 2 = 1
      BY <1>8, <1>9, <2>0, <2>9
    <2> QED
      BY <2>5, <2>7, <2>8, <2>10
  <1>15. Grown
    BY <1>13, <1>14
  <1> HIDE DEF more
  <1>16. Placed(t.messages, i + 1, next, more)
    <2>1. i + 1 # 0 /\ t.messages[i + 1].role = "tool"
      BY <1>0
    <2>2. CASE state.unresolved = {message.id}
      <3>1. next.turn = "after_tool_result" /\ next.unresolved = {}
        BY <1>2, <2>2
      <3> QED
        BY <1>15, <3>1 DEF Placed, Turns
    <2>3. CASE state.unresolved # {message.id}
      <3>1. next.turn = "tool_results"
        BY <1>2, <2>3
      <3> QED
        BY <1>15, <2>1, <3>1 DEF Placed, Turns
    <2> QED
      BY <2>2, <2>3
  <1>17. \A j \in 1 .. i + 1 :
           t.messages[j].role = "tool" => t.messages[j].id \in IdsOf(Before(t.messages, j))
    <2>1. message.id \in IdsOf(Before(t.messages, i + 1))
      BY <1>1, <1>5, <1>6
    <2> QED
      BY <2>1, RestStays
  <1> HIDE DEF next, before
  <1>18. Reached(t, i + 1, next, more)
    BY <1>1, <1>2, <1>5, <1>15, <1>16, <1>17 DEF Reached
  <1> QED
    BY <1>18 DEF next, more

(***************************************************************************)
(* The loop that validates and the loop that translates go on together: of *)
(* messages that are valid, the translation is one whose calls are all     *)
(* answered.                                                               *)
(***************************************************************************)
LEMMA LoopsAgree ==
  ASSUME NEW t, Faithful(t), NEW declared, ValidMessages(t.messages, declared)
  PROVE  \E state :
           /\ state = Validated!Fold(declared, Fresh, t.messages)
           /\ Reached(t, Len(t.messages), state, Translation(t.messages, t.assistant, t.results))
           /\ state.ok /\ state.turn \in {"after_user", "after_tool_result"}
  <1> DEFINE messages == t.messages
             n == Len(messages)
             positions == [i \in DOMAIN messages |-> i]
  <1>1. Typed(messages)
    BY DEF Faithful
  <1>2. n \in Nat /\ DOMAIN messages = 1 .. n
    BY <1>1 DEF Typed
  <1>3. DOMAIN positions = 1 .. n /\ \A i \in 1 .. n : positions[i] = i
    BY <1>2
  <1>4. LET end == Validated!Fold(declared, Fresh, messages)
        IN end.ok /\ end.turn \in {"after_user", "after_tool_result"}
    BY ValidIsFolded
  <1>5. Translation(t.messages, t.assistant, t.results) = Turned!Fold(t, <<>>, positions)
    BY TranslationIsFolded
  <1> HIDE DEF messages, n, positions
  <1>6. PICK f : /\ Validated!Trace(declared, Fresh, messages, n, f)
                 /\ Validated!Fold(declared, Fresh, messages) = f[n]
    BY <1>2, Validated!FoldTrace
  <1>7. PICK g : /\ Turned!Trace(t, <<>>, positions, n, g)
                 /\ Turned!Fold(t, <<>>, positions) = g[n]
    BY <1>2, <1>3, Turned!FoldTrace
  <1> DEFINE Fine(i) == IsState(f[i]) /\ (f[i].ok => Reached(t, i, f[i], g[i]))
             T == {i \in Nat : i <= n => Fine(i)}
  <1>8. 0 \in T
    <2>1. f[0] = Fresh /\ g[0] = <<>>
      BY <1>6, <1>7 DEF Validated!Trace, Turned!Trace
    <2>2. Reached(t, 0, Fresh, <<>>)
      BY ReachedAtFirst
    <2> QED
      BY <2>1, <2>2 DEF Reached
  <1>9. ASSUME NEW i \in Nat, i \in T PROVE i + 1 \in T
    <2> SUFFICES ASSUME i + 1 <= n PROVE Fine(i + 1)
      OBVIOUS
    <2>1. i + 1 \in 1 .. n /\ (i + 1) - 1 = i /\ Fine(i)
      BY <1>2, <1>9
    <2> DEFINE message == messages[i + 1]
               ok == f[i].ok /\ MayFollow(f[i], message) /\ GoodMessage(f[i], message, declared)
    <2>2. f[i + 1] = ValidStep(declared, f[i], message)
      BY <1>6, <2>1 DEF Validated!Trace
    <2>3. g[i + 1] = TurnStep(t, g[i], i + 1)
      BY <1>3, <1>7, <2>1 DEF Turned!Trace
    <2>4. message \in MessageType
      BY <1>1, <1>2, <2>1 DEF Typed
    <2>5. IsState(f[i])
      BY <2>1
    <2>6. CASE ~ok
      <3>1. f[i + 1] = [f[i] EXCEPT !.ok = FALSE]
        BY <2>2, <2>6 DEF ValidStep
      <3>2. IsState(f[i + 1]) /\ f[i + 1].ok = FALSE
        BY <2>5, <3>1 DEF IsState, StateFields
      <3> QED
        BY <3>2
    <2>7. CASE ok
      <3>1. f[i + 1] = After(f[i], message)
        BY <2>2, <2>7 DEF ValidStep
      <3>2. Reached(t, i, f[i], g[i])
        BY <2>1, <2>7
      <3>3. Goes(t, i, f[i], g[i], declared)
        BY <2>1, <2>7, <3>2 DEF Goes, messages, n
      <3>4. Reached(t, i + 1, After(f[i], message), TurnStep(t, g[i], i + 1))
        <4>1. message.role \in {"system", "developer", "user", "assistant", "tool"}
          BY <2>4 DEF MessageType
        <4>2. CASE message.role \in {"system", "developer"}
          BY <3>3, <4>2, InstructionGoes DEF Instructing, messages
        <4>3. CASE message.role = "user"
          BY <3>3, <4>3, UserGoes DEF messages
        <4>4. CASE message.role = "assistant"
          BY <3>3, <4>4, AssistantGoes DEF messages
        <4>5. CASE message.role = "tool"
          BY <3>3, <4>5, ToolGoes DEF messages
        <4> QED
          BY <4>1, <4>2, <4>3, <4>4, <4>5
      <3>5. Reached(t, i + 1, f[i + 1], g[i + 1])
        BY <2>3, <3>1, <3>4
      <3> QED
        BY <3>5 DEF Reached
    <2> QED
      BY <2>6, <2>7
  <1> HIDE DEF T
  <1>10. Nat \subseteq T
    BY <1>8, <1>9, Validated!SetInduction
  <1>11. Fine(n)
    BY <1>2, <1>10 DEF T
  <1>12. /\ Reached(t, n, f[n], g[n])
         /\ f[n].ok /\ f[n].turn \in {"after_user", "after_tool_result"}
    BY <1>4, <1>6, <1>11
  <1> QED
    BY <1>5, <1>6, <1>7, <1>12 DEF n, messages

\* A message that answers has a result for each id, and no id twice.
LEMMA ResultsCounted ==
  ASSUME NEW turn, GoodTurn(turn)
  PROVE  Cardinality(Parts(turn, "result"))
           = Cardinality({k \in DOMAIN turn.parts : turn.parts[k].part = "result"})
  <1> DEFINE parts == turn.parts
             m == Len(parts)
             K == {k \in DOMAIN parts : parts[k].part = "result"}
             R == Parts(turn, "result")
             f == [k \in K |-> parts[k]]
  <1>1. m \in Nat /\ DOMAIN parts = 1 .. m /\ Distinct(parts)
    BY DEF GoodTurn, IsSeq
  <1>2. R = {parts[k] : k \in K}
    BY DEF Parts, ToSet
  <1>3. IsFiniteSet(K)
    <2>1. K \subseteq 1 .. m /\ IsFiniteSet(1 .. m)
      BY <1>1, FS_Interval
    <2> QED
      BY <2>1, FS_Subset
  <1>4. \A k, l \in K : parts[k] = parts[l] => k = l
    BY <1>1 DEF Distinct
  <1> HIDE DEF R, K, parts
  <1>5. f \in Bijection(K, R)
    <2>1. f \in [K -> R] /\ \A k \in K : f[k] = parts[k]
      BY <1>2
    <2> HIDE DEF f
    <2>2. f \in Injection(K, R)
      BY <1>4, <2>1 DEF Injection, IsInjective
    <2>3. f \in Surjection(K, R)
      BY <1>2, <2>1 DEF Surjection
    <2> QED
      BY <2>2, <2>3 DEF Bijection
  <1>6. Cardinality(R) = Cardinality(K)
    BY <1>3, <1>5, FS_Bijection DEF ExistsBijection
  <1> QED
    BY <1>6 DEF R, K, parts

\* What Representable says of the messages.
SaysAll(messages, named) ==
  /\ \A i \in DOMAIN messages : messages[i].role = "user" <=> i % 2 = 1
  /\ Len(messages) % 2 = 1
  /\ \A i \in DOMAIN messages : i % 2 = 0 =>
       LET calls   == Parts(messages[i], "call")
           results == Parts(messages[i + 1], "result")
       IN /\ {c.id : c \in calls} = {r.id : r \in results}
          /\ Cardinality(results)
               = Cardinality({k \in DOMAIN messages[i + 1].parts :
                                messages[i + 1].parts[k].part = "result"})
          /\ named => {<<c.id, c.name>> : c \in calls} = {<<r.id, r.name>> : r \in results}
  /\ \A i \in DOMAIN messages : messages[i].parts # <<>>

\* When nothing is owed at the end, every call is followed by its result.
LEMMA ReachedSaysAll ==
  ASSUME NEW t, NEW i, NEW state, NEW turns, Reached(t, i, state, turns),
         state.turn \in {"after_user", "after_tool_result"}
  PROVE  SaysAll(turns, t.named)
  <1>1. Alternating(turns) /\ Linked(turns, {}, t.named) /\ Len(turns) % 2 = 1
    BY DEF Reached, Placed
  <1>2. Len(turns) \in Nat /\ DOMAIN turns = 1 .. Len(turns)
    BY <1>1 DEF Alternating, IsSeq
  <1>3. \A p \in DOMAIN turns : turns[p].parts # <<>>
    BY <1>1, EmptyIsSeq DEF Alternating, GoodTurn
  <1>4. ASSUME NEW p \in DOMAIN turns, p % 2 = 0
        PROVE  LET calls   == Parts(turns[p], "call")
                   results == Parts(turns[p + 1], "result")
               IN /\ {c.id : c \in calls} = {r.id : r \in results}
                  /\ Cardinality(results)
                       = Cardinality({k \in DOMAIN turns[p + 1].parts :
                                        turns[p + 1].parts[k].part = "result"})
                  /\ t.named => {<<c.id, c.name>> : c \in calls} = {<<r.id, r.name>> : r \in results}
    <2> DEFINE calls == Parts(turns[p], "call")
               results == Parts(turns[p + 1], "result")
    <2>1. p + 1 \in DOMAIN turns
      BY <1>1, <1>2, <1>4
    <2>2. ResultsAt(turns, p + 1) = results
      BY <2>1 DEF ResultsAt
    <2>3. Answered(turns, p, {}, t.named)
      BY <1>1, <1>4 DEF Linked
    <2>4. IdsOf(calls) = IdsOf(results) /\ SameNames(calls, results, t.named)
      BY <2>2, <2>3 DEF Answered
    <2>5. Cardinality(results) = Cardinality({k \in DOMAIN turns[p + 1].parts :
                                                turns[p + 1].parts[k].part = "result"})
      BY <1>1, <2>1, ResultsCounted DEF Alternating
    <2> HIDE DEF calls, results
    <2>6. {c.id : c \in calls} = {r.id : r \in results}
      BY <2>4 DEF IdsOf
    <2>7. ASSUME t.named
          PROVE  {<<c.id, c.name>> : c \in calls} = {<<r.id, r.name>> : r \in results}
      <3>1. \A c \in calls, r \in results : c.id = r.id => c.name = r.name
        BY <2>4, <2>7 DEF SameNames
      <3>2. \A c \in calls : \E r \in results : c.id = r.id /\ c.name = r.name
        BY <2>6, <3>1
      <3>3. \A r \in results : \E c \in calls : c.id = r.id /\ c.name = r.name
        BY <2>6, <3>1
      <3> QED
        BY <3>2, <3>3
    <2> QED
      BY <2>5, <2>6, <2>7 DEF calls, results
  <1>5. \A p \in DOMAIN turns : turns[p].role = "user" <=> p % 2 = 1
    BY <1>1 DEF Alternating
  <1> QED
    BY <1>1, <1>3, <1>4, <1>5 DEF SaysAll

Translate(messages, assistant, results, named) ==
  [messages |-> messages, assistant |-> assistant, results |-> results, named |-> named]

PlainResults(messages) == [i \in Results(messages) |-> Part("result", messages[i].id, NoName)]
PlainTranslation(messages) == Translate(messages, "assistant", PlainResults(messages), FALSE)

\* Results that have an id and no name are faithful.
LEMMA PlainIsFaithful ==
  ASSUME NEW messages, Typed(messages)
  PROVE  /\ Faithful(PlainTranslation(messages))
         /\ PlainTranslation(messages).messages = messages /\ PlainTranslation(messages).assistant = "assistant"
         /\ PlainTranslation(messages).results = PlainResults(messages) /\ PlainTranslation(messages).named = FALSE
  <1> DEFINE results == PlainResults(messages)
             t == PlainTranslation(messages)
  <1>1. \A i \in Results(messages) :
          results[i].part = "result" /\ results[i].id = messages[i].id
    BY DEF Part, PlainResults
  <1> HIDE DEF results
  <1>2. /\ t.messages = messages /\ t.assistant = "assistant" /\ t.results = results
        /\ t.named = FALSE
    BY Zenon DEF PlainTranslation, Translate, results
  <1> HIDE DEF t
  <1>3. Faithful(t)
    BY <1>1, <1>2 DEF Faithful
  <1> QED
    BY <1>2, <1>3 DEF t, results

\* messages of anthropic.rs; and that every result has its call.
LEMMA AnthropicSaysAll ==
  ASSUME NEW messages, Typed(messages), NEW declared, ValidMessages(messages, declared)
  PROVE  /\ SaysAll(AnthropicMessages(messages), FALSE)
         /\ \A i \in Results(messages) : NamesOf(messages, i) # {}
  <1> DEFINE t == PlainTranslation(messages)
  <1>1. /\ Faithful(t)
        /\ t.messages = messages /\ t.assistant = "assistant"
        /\ t.results = PlainResults(messages) /\ t.named = FALSE
    BY PlainIsFaithful
  <1>3. AnthropicMessages(messages) = Translation(messages, "assistant", PlainResults(messages))
    BY DEF AnthropicMessages, PlainResults
  <1> HIDE DEF t
  <1>5. PICK state :
          /\ Reached(t, Len(t.messages), state, Translation(t.messages, t.assistant, t.results))
          /\ state.turn \in {"after_user", "after_tool_result"}
    BY <1>1, LoopsAgree
  <1>6. SaysAll(Translation(t.messages, t.assistant, t.results), t.named)
    BY <1>5, ReachedSaysAll
  <1>7. SaysAll(AnthropicMessages(messages), FALSE)
    BY <1>1, <1>3, <1>6
  <1>8. ASSUME NEW i \in Results(messages) PROVE NamesOf(messages, i) # {}
    <2>1. i \in 1 .. Len(messages) /\ messages[i].role = "tool"
      BY DEF Results, Typed
    <2>2. messages[i].id \in IdsOf(Before(messages, i))
      BY <1>1, <1>5, <2>1 DEF Reached
    <2>3. PICK c \in Before(messages, i) : c.id = messages[i].id
      BY <2>2 DEF IdsOf
    <2>4. c.name \in NamesOf(messages, i)
      BY <2>1, <2>3, NamesAreBefore
    <2> QED
      BY <2>4
  <1> QED
    BY <1>7, <1>8

\* contents of gemini.rs.
LEMMA GeminiSaysAll ==
  ASSUME NEW messages, Typed(messages), NEW declared, ValidMessages(messages, declared)
  PROVE  SaysAll(GeminiContents(messages), TRUE)
  <1> DEFINE name(i) == CHOOSE n \in NamesOf(messages, i) : TRUE
             results == [i \in Results(messages) |-> Part("result", messages[i].id, name(i))]
             t == Translate(messages, "model", results, TRUE)
  <1>2. \A i \in Results(messages) : name(i) \in NamesOf(messages, i)
    BY AnthropicSaysAll
  <1>3. GeminiContents(messages) = Translation(messages, "model", results)
    BY DEF GeminiContents
  <1> HIDE DEF name
  <1>4. \A i \in Results(messages) :
          /\ results[i].part = "result" /\ results[i].id = messages[i].id
          /\ results[i].name = name(i)
    BY DEF Part
  <1> HIDE DEF results
  <1>1. /\ t.messages = messages /\ t.assistant = "model" /\ t.results = results
        /\ t.named = TRUE
    BY Zenon DEF t, Translate
  <1> HIDE DEF t
  <1>5. Faithful(t)
    BY <1>1, <1>2, <1>4 DEF Faithful
  <1>6. PICK state :
          /\ Reached(t, Len(t.messages), state, Translation(t.messages, t.assistant, t.results))
          /\ state.turn \in {"after_user", "after_tool_result"}
    BY <1>1, <1>5, LoopsAgree
  <1>7. SaysAll(Translation(t.messages, t.assistant, t.results), t.named)
    BY <1>6, ReachedSaysAll
  <1> QED
    BY <1>1, <1>3, <1>7

\* Nothing that is let through makes an adapter stumble.
LEMMA NothingStumbles ==
  ASSUME Typed(chat.messages), Status = 200, attempt \in DOMAIN Route
  PROVE  ~Stumbles(Route[attempt], chat)
  <1> DEFINE provider == Route[attempt]
             messages == chat.messages
  <1>1. ValidRequest(chat) /\ ValidForRoute(chat, Route)
    BY Passed
  <1>2. provider \in ToSet(Route)
    BY DEF ToSet
  <1>3. /\ provider = "anthropic" => chat.limits # {}
        /\ provider \in Translated => StructuredArguments(messages)
    BY <1>1, <1>2 DEF ValidForRoute
  <1>4. \A i \in Results(messages) : NamesOf(messages, i) # {}
    BY <1>1, AnthropicSaysAll DEF ValidRequest
  <1>5. ASSUME StructuredArguments(messages), NEW call \in Calls(messages) PROVE call.args = "object"
    <2>1. PICK i \in DOMAIN messages : call \in ToSet(messages[i].calls)
      BY <1>5 DEF Calls
    <2>2. PICK k \in DOMAIN messages[i].calls : call = messages[i].calls[k]
      BY <2>1 DEF ToSet
    <2> QED
      BY <1>5, <2>1, <2>2 DEF StructuredArguments
  <1>6. \A i \in DOMAIN messages : messages[i].role = "tool" => NamesOf(messages, i) # {}
    BY <1>4 DEF Results
  <1> HIDE DEF provider, messages
  <1>7. ~Stumbles(provider, chat)
    BY <1>3, <1>5, <1>6 DEF Stumbles, messages
  <1> QED
    BY <1>7 DEF provider

(***************************************************************************)
(* What is sent can be sent and says what the client said, in every state, *)
(* for any conversation of any length: the validation is strong enough for *)
(* the adapters, which would stop at what they cannot say (unreachable!,   *)
(* expect), and no call goes without its result (validate_messages against *)
(* messages of anthropic.rs and contents of gemini.rs).                    *)
(***************************************************************************)
THEOREM RequestsAreRepresentable == Spec => []Representable
  <1>1. AppInv => Representable
    <2> SUFFICES ASSUME AppInv, step = "sent" PROVE
               /\ ~outbound.stumbled
               /\ Route[attempt] \in Translated =>
                    SaysAll(outbound.messages, Route[attempt] = "gemini")
      BY Zenon DEF Representable, SaysAll
    <2> DEFINE provider == Route[attempt]
               messages == chat.messages
    <2>1. /\ Typed(messages) /\ Status = 200 /\ attempt \in DOMAIN Route
          /\ outbound = Outbound(provider, chat)
      BY DEF AppInv, ChatInv, Asked, Underway
    <2>2. ~Stumbles(provider, chat)
      BY <2>1, NothingStumbles
    <2>3. ValidMessages(messages, chat.tools)
      BY <2>1, Passed DEF ValidRequest
    <2> DEFINE sent == [stumbled |-> FALSE,
                        messages |-> NativeMessages(provider, messages),
                        system   |-> provider \in Translated /\ Instructions(messages) > 0,
                        limited  |-> chat.limits # {},
                        choice   |-> NativeChoice(provider, chat)]
    <2>4. outbound = sent
      BY <2>1, <2>2 DEF Outbound
    <2>5. sent.stumbled = FALSE /\ sent.messages = NativeMessages(provider, messages)
      OBVIOUS
    <2> HIDE DEF sent, provider
    <2>6. ~outbound.stumbled /\ outbound.messages = NativeMessages(provider, messages)
      BY <2>4, <2>5
    <2>7. CASE provider = "anthropic"
      BY <2>1, <2>3, <2>6, <2>7, AnthropicSaysAll DEF NativeMessages, provider
    <2>8. CASE provider = "gemini"
      BY <2>1, <2>3, <2>6, <2>8, GeminiSaysAll DEF NativeMessages, provider
    <2>9. CASE provider \notin Translated
      BY <2>6, <2>9 DEF provider
    <2> QED
      BY <2>7, <2>8, <2>9 DEF Translated
  <1> QED
    BY <1>1, InitAppInv, AppInvKept, PTL DEF Spec

----------------------------------------------------------------------------
(***************************************************************************)
(* A conversation goes on: with the answer, and with the client's word or  *)
(* the results.                                                            *)
(***************************************************************************)
\* Where the validation of a valid conversation ends.
Ended(state, ids) ==
  /\ IsState(state) /\ state.ok
  /\ state.turn \in {"after_user", "after_tool_result"}
  /\ state.ids = ids /\ state.unresolved = {}

\* What a valid conversation ends with.
LEMMA ValidEnds ==
  ASSUME NEW messages, Typed(messages), NEW declared, ValidMessages(messages, declared)
  PROVE  Ended(Validated!Fold(declared, Fresh, messages), IdsOf(Before(messages, Len(messages))))
  <1> DEFINE t == PlainTranslation(messages)
  <1>1. Faithful(t) /\ t.messages = messages
    BY PlainIsFaithful
  <1> HIDE DEF t
  <1>2. PICK state :
          /\ state = Validated!Fold(declared, Fresh, t.messages)
          /\ Reached(t, Len(t.messages), state, Translation(t.messages, t.assistant, t.results))
          /\ state.ok /\ state.turn \in {"after_user", "after_tool_result"}
    BY <1>1, LoopsAgree
  <1> QED
    BY <1>1, <1>2 DEF Reached, Placed, Ended

\* The answer follows.
Spoken(state, ids, calls) ==
  /\ IsState(state) /\ state.ok
  /\ state.ids = ids /\ state.unresolved = CallIds(calls)
  /\ state.turn = IF calls = <<>> THEN "after_assistant" ELSE "tool_results"

\* An answer may follow it, with ids that are new,
LEMMA AnswerFollows ==
  ASSUME NEW state, NEW ids, Ended(state, ids), NEW content \in BOOLEAN, NEW calls, GoodCallList(calls),
         content \/ calls # <<>>, CallIds(calls) \cap ids = {}
  PROVE  Spoken(ValidStep(Tools, state, Message("assistant", content, calls, NoId)),
                ids \cup CallIds(calls), calls)
  <1> DEFINE answer == Message("assistant", content, calls, NoId)
  <1>1. /\ answer.role = "assistant" /\ answer.content = content /\ answer.calls = calls
        /\ answer.sound = TRUE
    BY Zenon DEF Message, answer
  <1>2. answer \in MessageType
    BY AnswerTyped DEF GoodCallList
  <1> HIDE DEF answer
  <1>3. MayFollow(state, answer)
    BY <1>1 DEF MayFollow, Instructing, Ended
  <1>4. GoodCalls(calls, state.ids, Tools)
    BY DEF GoodCalls, GoodCallList, OwnIds, Ended
  <1>5. GoodMessage(state, answer, Tools)
    BY <1>1, <1>4 DEF GoodMessage
  <1>6. ValidStep(Tools, state, answer) = After(state, answer)
    BY <1>3, <1>5 DEF ValidStep, Ended
  <1> DEFINE next == After(state, answer)
  <1>7. /\ IsState(next) /\ next.ok = state.ok
        /\ next.ids = state.ids \cup CallIds(calls)
        /\ next.unresolved = state.unresolved \cup CallIds(calls)
        /\ next.turn = IF calls = <<>> THEN "after_assistant" ELSE "tool_results"
    BY <1>1, <1>2, AfterFields DEF Ended
  <1> HIDE DEF next
  <1>8. Spoken(next, ids \cup CallIds(calls), calls)
    BY <1>7 DEF Spoken, Ended
  <1> QED
    BY <1>6, <1>8 DEF next, answer

\* a question may follow an answer without calls,
LEMMA UserFollows ==
  ASSUME NEW state, IsState(state), state.ok, state.turn = "after_assistant"
  PROVE  LET next == ValidStep(Tools, state, Message("user", TRUE, <<>>, NoId))
         IN next.ok /\ next.turn = "after_user"
  <1> DEFINE user == Message("user", TRUE, <<>>, NoId)
  <1>1. /\ user.role = "user" /\ user.content = TRUE /\ user.sound = TRUE
    BY Zenon DEF Message, user
  <1>2. user \in MessageType
    BY UserTyped
  <1> HIDE DEF user
  <1>3. MayFollow(state, user)
    BY <1>1 DEF MayFollow, Instructing
  <1>4. GoodMessage(state, user, Tools)
    BY <1>1 DEF GoodMessage
  <1>5. ValidStep(Tools, state, user) = After(state, user)
    BY <1>3, <1>4 DEF ValidStep
  <1>6. After(state, user).ok = state.ok /\ After(state, user).turn = "after_user"
    BY <1>1, <1>2, AfterFields
  <1> QED
    BY <1>5, <1>6 DEF user

\* While results come.
Awaiting(state, unresolved) ==
  /\ IsState(state) /\ state.ok
  /\ state.unresolved = unresolved
  /\ state.turn \in {"tool_results", "after_tool_result"}

\* and results may follow one with calls, until none is owed.
LEMMA ResultFollows ==
  ASSUME NEW state, NEW unresolved, Awaiting(state, unresolved), NEW id \in unresolved \cap Ids
  PROVE  /\ Awaiting(ValidStep(Tools, state, ResultFor(id)), unresolved \ {id})
         /\ unresolved = {id} =>
              ValidStep(Tools, state, ResultFor(id)).turn = "after_tool_result"
  <1> DEFINE result == ResultFor(id)
  <1>1. /\ result.role = "tool" /\ result.content = TRUE /\ result.sound = TRUE /\ result.id = id
    BY Zenon DEF Message, ResultFor, result
  <1>2. result \in MessageType
    BY ResultTyped
  <1> HIDE DEF result
  <1>3. MayFollow(state, result)
    BY <1>1 DEF MayFollow, Instructing, Awaiting
  <1>4. GoodMessage(state, result, Tools)
    BY <1>1 DEF GoodMessage, Awaiting
  <1>5. ValidStep(Tools, state, result) = After(state, result)
    BY <1>3, <1>4 DEF ValidStep, Awaiting
  <1> DEFINE next == After(state, result)
  <1>6. /\ IsState(next) /\ next.ok = state.ok
        /\ next.unresolved = state.unresolved \ {id}
        /\ next.turn = IF state.unresolved = {id} THEN "after_tool_result" ELSE "tool_results"
    BY <1>1, <1>2, AfterFields DEF Awaiting
  <1> HIDE DEF next
  <1>7. Awaiting(next, unresolved \ {id}) /\ (unresolved = {id} => next.turn = "after_tool_result")
    BY <1>6 DEF Awaiting
  <1> QED
    BY <1>5, <1>7 DEF next, result

\* Results for all of the calls, each once.
LEMMA ResultsOnce ==
  ASSUME NEW calls, GoodCallList(calls), calls # <<>>, NEW after \in SetToSeqs(ResultsOf(calls))
  PROVE  \E m \in Nat :
           /\ m # 0 /\ Len(after) = m /\ DOMAIN after = 1 .. m
           /\ \A k \in 1 .. m :
                after[k].id \in CallIds(calls)
                  /\ after[k] = ResultFor(after[k].id)
           /\ \A k, l \in 1 .. m : k # l => after[k].id # after[l].id
           /\ \A id \in CallIds(calls) : \E k \in 1 .. m : after[k].id = id
           /\ after \in Seq(MessageType)
  <1> DEFINE results == ResultsOf(calls)
             ids == CallIds(calls)
             m == Cardinality(results)
             of(id) == ResultFor(id)
             n == Len(calls)
             result == [i \in 1 .. n |-> of(calls[i].id)]
  <1>1. n \in Nat /\ n # 0 /\ DOMAIN calls = 1 .. n
    BY EmptySeq DEF GoodCallList
  <1>2. results = {of(id) : id \in ids} /\ ids = {calls[i].id : i \in 1 .. n}
    BY <1>1 DEF ResultsOf, UsedIds, CallIds
  <1>3. \A id : of(id).id = id
    BY Zenon DEF ResultFor, Message
  <1>4. ids \subseteq Ids
    BY <1>1, <1>2 DEF GoodCallList, OwnIds
  <1>5. \A id \in Ids : of(id) \in MessageType
    BY ResultTyped
  <1>6. after \in [1 .. m -> results] /\ \A k, l \in 1 .. m : k # l => after[k] # after[l]
    BY DEF SetToSeqs
  <1> HIDE DEF of, ids, n, results
  <1>7. IsFiniteSet(results) /\ m \in Nat
    <2>1. IsFiniteSet(1 .. n)
      BY <1>1, FS_Interval
    <2>2. result \in Surjection(1 .. n, results)
      BY <1>1, <1>2 DEF Surjection
    <2> HIDE DEF result
    <2>3. IsFiniteSet(results)
      BY <2>1, <2>2, FS_Surjection
    <2> QED
      BY <2>3, FS_CardinalityType
  <1>8. Cardinality(1 .. m) = m /\ IsFiniteSet(1 .. m)
    BY <1>7, FS_Interval
  <1> HIDE DEF m
  <1>9. after \in Injection(1 .. m, results)
    BY <1>6 DEF Injection, IsInjective
  <1>10. after \in Surjection(1 .. m, results)
    <2>1. Cardinality(1 .. m) = Cardinality(results) <=> after \in Surjection(1 .. m, results)
      BY <1>7, <1>9, FS_Injection
    <2> QED
      BY <1>8, <2>1 DEF m
  <1>11. \A r \in results : \E k \in 1 .. m : after[k] = r
    BY <1>10 DEF Surjection
  <1>12. of(calls[1].id) \in results
    <2>1. 1 \in 1 .. n
      BY <1>1
    <2> QED
      BY <1>2, <2>1
  <1>13. m # 0
    <2>1. PICK k \in 1 .. m : after[k] = of(calls[1].id)
      BY <1>11, <1>12
    <2> QED
      BY <1>7, <2>1
  <1>14. ASSUME NEW k \in 1 .. m PROVE after[k].id \in ids /\ after[k] = of(after[k].id)
    <2>1. PICK id \in ids : after[k] = of(id)
      BY <1>2, <1>6
    <2> QED
      BY <1>3, <2>1
  <1>15. \A k, l \in 1 .. m : k # l => after[k].id # after[l].id
    BY <1>6, <1>14
  <1>16. ASSUME NEW id \in ids PROVE \E k \in 1 .. m : after[k].id = id
    <2>1. PICK k \in 1 .. m : after[k] = of(id)
      BY <1>2, <1>11
    <2> QED
      BY <1>3, <2>1
  <1>17. results \subseteq MessageType
    BY <1>2, <1>4, <1>5
  <1>18. after \in [1 .. m -> MessageType]
    BY <1>6, <1>17
  <1>19. after \in Seq(MessageType) /\ Len(after) = m /\ DOMAIN after = 1 .. m
    BY <1>7, <1>18
  <1> QED
    BY <1>7, <1>13, <1>14, <1>15, <1>16, <1>19 DEF ids, of

\* The loop over a conversation that is longer than another goes the same way at first.
Begins(longer, m, messages, n) ==
  /\ n \in Nat /\ m \in Nat /\ n <= m
  /\ DOMAIN messages = 1 .. n /\ DOMAIN longer = 1 .. m
  /\ \A i \in 1 .. n : longer[i] = messages[i]

LongTrace(declared, longer, m, messages, n, f) ==
  /\ Validated!Trace(declared, Fresh, longer, m, f)
  /\ f[n] = Validated!Fold(declared, Fresh, messages)
  /\ f[m] = Validated!Fold(declared, Fresh, longer)

\* The trace of the loop goes on from where the shorter conversation ended.
LEMMA LongerTrace ==
  ASSUME NEW declared, NEW longer, NEW m, NEW messages, NEW n, Begins(longer, m, messages, n)
  PROVE  \E f : LongTrace(declared, longer, m, messages, n, f)
  <1>1. n \in Nat /\ DOMAIN messages = 1 .. n
    BY DEF Begins
  <1>2. m \in Nat /\ DOMAIN longer = 1 .. m
    BY DEF Begins
  <1>3. \A i \in 1 .. n : i \in 1 .. m /\ longer[i] = messages[i]
    BY DEF Begins
  <1>4. PICK f : /\ Validated!Trace(declared, Fresh, longer, m, f)
                 /\ Validated!Fold(declared, Fresh, longer) = f[m]
    BY <1>2, Validated!FoldTrace, ZenonT(30)
  <1>5. Validated!Trace(declared, Fresh, messages, n, f)
    BY <1>3, <1>4, ZenonT(30) DEF Validated!Trace
  <1>6. Validated!Fold(declared, Fresh, messages) = f[n]
    BY <1>1, <1>5, Validated!TraceIsFold, ZenonT(30)
  <1> QED
    BY <1>4, <1>6, ZenonT(30) DEF LongTrace

\* What there is of a conversation that went on.
LEMMA Joints ==
  ASSUME NEW messages, Typed(messages), NEW answer \in MessageType, NEW after, Typed(after)
  PROVE  LET n == Len(messages)
             m == Len(after)
             longer == messages \o <<answer>> \o after
         IN /\ n \in Nat /\ m \in Nat /\ DOMAIN messages = 1 .. n
            /\ DOMAIN longer = 1 .. (n + 1) + m
            /\ \A i \in 1 .. n : longer[i] = messages[i]
            /\ longer[n + 1] = answer
            /\ \A k \in 1 .. m : longer[(n + 1) + k] = after[k]
  <1> DEFINE n == Len(messages)
             m == Len(after)
             one == <<answer>>
             first == messages \o one
             longer == first \o after
  <1>1. messages \in Seq(MessageType) /\ after \in Seq(MessageType) /\ one \in Seq(MessageType)
    BY DEF Typed
  <1>2. Len(one) = 1 /\ one[1] = answer
    OBVIOUS
  <1>3. n \in Nat /\ m \in Nat /\ DOMAIN messages = 1 .. n
    BY <1>1
  <1> HIDE DEF one
  <1>4. /\ first \in Seq(MessageType) /\ Len(first) = n + 1
        /\ \A i \in 1 .. n + 1 : first[i] = IF i <= n THEN messages[i] ELSE one[i - n]
    <2>1. /\ messages \o one \in Seq(MessageType)
          /\ Len(messages \o one) = Len(messages) + Len(one)
          /\ \A i \in 1 .. Len(messages) + Len(one) :
               (messages \o one)[i] = IF i <= Len(messages) THEN messages[i] ELSE one[i - Len(messages)]
      BY <1>1, ConcatProperties
    <2>2. Len(messages) + Len(one) = n + 1
      BY <1>2
    <2> HIDE DEF first
    <2> QED
      BY <2>1, <2>2, Zenon DEF first
  <1> HIDE DEF first, n
  <1>5. /\ longer \in Seq(MessageType) /\ Len(longer) = (n + 1) + m
        /\ \A i \in 1 .. (n + 1) + m :
             longer[i] = IF i <= n + 1 THEN first[i] ELSE after[i - (n + 1)]
    BY <1>1, <1>4, ConcatProperties
  <1> HIDE DEF longer
  <1>6. DOMAIN longer = 1 .. (n + 1) + m
    BY <1>5
  <1>7. ASSUME NEW i \in 1 .. n PROVE longer[i] = messages[i]
    <2>1. i \in 1 .. n + 1 /\ i \in 1 .. (n + 1) + m /\ i <= n + 1 /\ i <= n
      BY <1>3
    <2> QED
      BY <1>4, <1>5, <2>1
  <1>8. longer[n + 1] = answer
    <2>1. n + 1 \in 1 .. n + 1 /\ n + 1 \in 1 .. (n + 1) + m /\ ~(n + 1 <= n) /\ (n + 1) - n = 1
          /\ n + 1 <= n + 1
      BY <1>3
    <2>2. longer[n + 1] = first[n + 1]
      BY <1>5, <2>1
    <2>3. first[n + 1] = one[1]
      BY <1>4, <2>1
    <2> QED
      BY <1>2, <2>2, <2>3
  <1>9. ASSUME NEW k \in 1 .. m PROVE longer[(n + 1) + k] = after[k]
    <2>1. (n + 1) + k \in 1 .. (n + 1) + m /\ ~((n + 1) + k <= n + 1) /\ ((n + 1) + k) - (n + 1) = k
      BY <1>3
    <2> QED
      BY <1>5, <2>1
  <1> QED
    BY <1>3, <1>6, <1>7, <1>8, <1>9 DEF longer, first, one, n

\* The results follow an answer with calls, all of them.
LEMMA ResultsFollow ==
  ASSUME NEW calls, GoodCallList(calls), calls # <<>>, NEW after \in SetToSeqs(ResultsOf(calls)),
         NEW f, NEW p \in Nat, NEW ids, Spoken(f[p], ids, calls),
         \A k \in 1 .. Len(after) : f[p + k] = ValidStep(Tools, f[p + (k - 1)], after[k])
  PROVE  f[p + Len(after)].ok /\ f[p + Len(after)].turn = "after_tool_result"
  <1> DEFINE all == CallIds(calls)
  <1>1. PICK m \in Nat :
          /\ m # 0 /\ Len(after) = m /\ DOMAIN after = 1 .. m
          /\ \A k \in 1 .. m : after[k].id \in all /\ after[k] = ResultFor(after[k].id)
          /\ \A k, l \in 1 .. m : k # l => after[k].id # after[l].id
          /\ \A id \in all : \E k \in 1 .. m : after[k].id = id
          /\ after \in Seq(MessageType)
    BY ResultsOnce
  <1> DEFINE Rest(k) == all \ {after[l].id : l \in 1 .. k}
             Fine(k) == Awaiting(f[p + k], Rest(k)) /\ (k # 0 /\ Rest(k) = {} => f[p + k].turn = "after_tool_result")
             T == {k \in Nat : k <= m => Fine(k)}
  <1>2. all \subseteq Ids
    BY DEF CallIds, GoodCallList, OwnIds
  <1> HIDE DEF all
  <1>3. 0 \in T
    <2>1. 1 .. 0 = {} /\ p + 0 = p
      OBVIOUS
    <2>2. Rest(0) = all
      BY <2>1
    <2>3. Awaiting(f[p], all)
      BY DEF Spoken, Awaiting, all
    <2> QED
      BY <2>1, <2>2, <2>3
  <1>4. ASSUME NEW k \in Nat, k \in T PROVE k + 1 \in T
    <2> SUFFICES ASSUME k + 1 <= m PROVE Fine(k + 1)
      OBVIOUS
    <2> DEFINE id == after[k + 1].id
               next == f[p + (k + 1)]
    <2>1. k + 1 \in 1 .. m /\ (k + 1) - 1 = k /\ Awaiting(f[p + k], Rest(k))
      BY <1>4
    <2>2. next = ValidStep(Tools, f[p + k], after[k + 1])
      BY <1>1, <2>1
    <2>3. after[k + 1] = ResultFor(id) /\ id \in all
      BY <1>1, <2>1
    <2>4. id \in Rest(k)
      <3>1. \A l \in 1 .. k : l \in 1 .. m /\ l # k + 1
        BY <2>1
      <3> QED
        BY <1>1, <2>1, <2>3, <3>1
    <2>5. Rest(k + 1) = Rest(k) \ {id}
      <3>1. 1 .. k + 1 = (1 .. k) \cup {k + 1}
        OBVIOUS
      <3> QED
        BY <3>1
    <2> HIDE DEF id, next, Rest
    <2>6. /\ Awaiting(next, Rest(k) \ {id})
          /\ Rest(k) = {id} => next.turn = "after_tool_result"
      <3>1. next = ValidStep(Tools, f[p + k], ResultFor(id))
        BY <2>2, <2>3
      <3>2. Awaiting(f[p + k], Rest(k)) /\ id \in Rest(k) \cap Ids
        BY <1>2, <2>1, <2>3, <2>4
      <3> QED
        BY <3>1, <3>2, ResultFollows
    <2>7. Rest(k + 1) = {} => Rest(k) = {id}
      BY <2>4, <2>5
    <2> QED
      BY <2>5, <2>6, <2>7 DEF next
  <1> HIDE DEF T
  <1>5. Nat \subseteq T
    BY <1>3, <1>4, Validated!SetInduction
  <1>6. Fine(m)
    <2>1. m \in T
      BY <1>5
    <2> HIDE DEF Fine
    <2> QED
      BY <2>1 DEF T
  <1>7. Rest(m) = {}
    BY <1>1
  <1> QED
    BY <1>1, <1>6, <1>7 DEF Awaiting

(***************************************************************************)
(* A valid conversation that goes on stays valid, if the answer is not     *)
(* empty and its ids are new.                                              *)
(***************************************************************************)
LEMMA ContinuedIsValid ==
  ASSUME NEW messages, Typed(messages), ValidMessages(messages, Tools),
         NEW content \in BOOLEAN, NEW calls, GoodCallList(calls), content \/ calls # <<>>,
         CallIds(calls) \cap IdsOf(Before(messages, Len(messages))) = {},
         NEW after,
         IF calls = <<>> THEN after = <<Message("user", TRUE, <<>>, NoId)>>
         ELSE after \in SetToSeqs(ResultsOf(calls))
  PROVE  ValidMessages(messages \o <<Message("assistant", content, calls, NoId)>> \o after, Tools)
  <1> DEFINE answer == Message("assistant", content, calls, NoId)
             user == Message("user", TRUE, <<>>, NoId)
             n == Len(messages)
             m == Len(after)
             longer == messages \o <<answer>> \o after
             ids == IdsOf(Before(messages, n))
  <1>1. answer \in MessageType
    BY AnswerTyped DEF GoodCallList
  <1>20. user \in MessageType
    BY UserTyped
  <1>23. calls = <<>> => after = <<user>>
    OBVIOUS
  <1> HIDE DEF answer, user
  <1>21. calls = <<>> => after = <<user>> /\ Len(after) = 1 /\ after[1] = user
    <2>1. Len(<<user>>) = 1 /\ <<user>>[1] = user
      OBVIOUS
    <2> QED
      BY <1>23, <2>1
  <1>22. calls # <<>> => after \in SetToSeqs(ResultsOf(calls))
    OBVIOUS
  <1>2. Typed(after)
    <2>1. CASE calls = <<>>
      <3>1. <<user>> \in Seq(MessageType)
        BY <1>20
      <3> QED
        BY <1>21, <2>1, <3>1 DEF Typed
    <2>2. CASE calls # <<>>
      BY <1>22, <2>2, ResultsOnce DEF Typed
    <2> QED
      BY <2>1, <2>2
  <1>3. /\ n \in Nat /\ m \in Nat /\ DOMAIN messages = 1 .. n
        /\ DOMAIN longer = 1 .. (n + 1) + m
        /\ \A i \in 1 .. n : longer[i] = messages[i]
        /\ longer[n + 1] = answer
        /\ \A k \in 1 .. m : longer[(n + 1) + k] = after[k]
    BY <1>1, <1>2, Joints
  <1>4. Ended(Validated!Fold(Tools, Fresh, messages), ids)
    BY ValidEnds
  <1> DEFINE size == (n + 1) + m
  <1> HIDE DEF longer, n, ids
  <1>5. size \in Nat /\ n <= size /\ DOMAIN longer = 1 .. size
    BY <1>3
  <1>6. PICK f : LongTrace(Tools, longer, size, messages, n, f)
    <2>1. Begins(longer, size, messages, n)
      BY <1>3, <1>5 DEF Begins
    <2> QED
      BY <2>1, LongerTrace
  <1>7. \A i \in 1 .. size : f[i] = ValidStep(Tools, f[i - 1], longer[i])
    BY <1>6 DEF LongTrace, Validated!Trace
  <1>8. f[n + 1] = ValidStep(Tools, f[n], answer)
    <2>1. n + 1 \in 1 .. (n + 1) + m /\ (n + 1) - 1 = n
      BY <1>3
    <2> QED
      BY <1>3, <1>7, <2>1
  <1>9. ASSUME NEW k \in 1 .. m
        PROVE  f[(n + 1) + k] = ValidStep(Tools, f[(n + 1) + (k - 1)], after[k])
    <2>1. (n + 1) + k \in 1 .. (n + 1) + m /\ ((n + 1) + k) - 1 = (n + 1) + (k - 1)
      BY <1>3
    <2> QED
      BY <1>3, <1>7, <2>1
  <1>10. Spoken(f[n + 1], ids \cup CallIds(calls), calls)
    <2>1. CallIds(calls) \cap ids = {}
      BY DEF ids, n
    <2>2. Ended(f[n], ids)
      BY <1>4, <1>6 DEF LongTrace
    <2> QED
      BY <1>8, <2>1, <2>2, AnswerFollows DEF answer
  <1>11. f[(n + 1) + m].ok /\ f[(n + 1) + m].turn \in {"after_user", "after_tool_result"}
    <2>1. CASE calls = <<>>
      <3>1. m = 1 /\ after[1] = user
        BY <1>21, <2>1
      <3>2. f[(n + 1) + 1] = ValidStep(Tools, f[n + 1], user)
        <4>1. (n + 1) + (1 - 1) = n + 1 /\ 1 \in 1 .. m
          BY <1>3, <3>1
        <4> QED
          BY <1>9, <3>1, <4>1
      <3>3. IsState(f[n + 1]) /\ f[n + 1].ok /\ f[n + 1].turn = "after_assistant"
        BY <1>10, <2>1 DEF Spoken
      <3>4. /\ ValidStep(Tools, f[n + 1], user).ok
            /\ ValidStep(Tools, f[n + 1], user).turn = "after_user"
        BY <3>3, UserFollows DEF user
      <3> QED
        BY <3>1, <3>2, <3>4
    <2>2. CASE calls # <<>>
      <3>1. n + 1 \in Nat
        BY <1>3
      <3>2. f[(n + 1) + m].ok /\ f[(n + 1) + m].turn = "after_tool_result"
        BY <1>9, <1>10, <1>22, <2>2, <3>1, ResultsFollow
      <3> QED
        BY <3>2
    <2> QED
      BY <2>1, <2>2
  <1>12. ValidMessages(longer, Tools)
    BY <1>6, <1>11, ValidIsFolded DEF LongTrace
  <1> QED
    BY <1>12 DEF longer, answer

GoesOn(messages) ==
  ValidMessages(messages, Tools) \/ Wordless(messages) \/ SharedIds(messages)

HistoryInv == step # "closed" => GoesOn(history)

\* The client goes on with a valid conversation.
LEMMA ContinueGoesOn ==
  ASSUME ChatInv, Continue
  PROVE  GoesOn(history')
  <1>1. step = "answered" /\ chat.honest /\ reply.status = 200
    BY DEF Continue
  <1>2. /\ Typed(history)
        /\ reply.content \in BOOLEAN /\ GoodCallList(reply.calls)
        /\ Status = 200 /\ IsHonest(chat)
    BY <1>1 DEF ChatInv, Kept, Replied, Asked
  <1>3. ValidMessages(history, Tools)
    BY <1>2, Passed DEF ValidRequest, IsHonest
  <1> DEFINE content == reply.content
             calls == reply.calls
             answer == Message("assistant", content, calls, NoId)
  <1>4. PICK after \in FollowUps : history' = history \o <<answer>> \o after
    BY DEF Continue
  <1>5. IF calls = <<>> THEN after = <<Message("user", TRUE, <<>>, NoId)>>
        ELSE after \in SetToSeqs(ResultsOf(calls))
    BY DEF FollowUps, ResultsOf, ResultFor
  <1>6. Typed(after)
    BY <1>2, FollowUpsTyped
  <1>7. /\ answer.role = "assistant" /\ answer.content = content /\ answer.calls = calls
    BY Zenon DEF Message, answer
  <1>8. answer \in MessageType
    BY <1>2, AnswerTyped DEF GoodCallList
  <1> DEFINE n == Len(history)
             m == Len(after)
             longer == history \o <<answer>> \o after
  <1> HIDE DEF answer
  <1>9. /\ n \in Nat /\ m \in Nat /\ DOMAIN history = 1 .. n
        /\ DOMAIN longer = 1 .. (n + 1) + m
        /\ \A i \in 1 .. n : longer[i] = history[i]
        /\ longer[n + 1] = answer
    BY <1>2, <1>6, <1>8, Joints
  <1> HIDE DEF longer, n, m, calls, content
  <1>10. n + 1 \in DOMAIN longer
    BY <1>9
  <1>11. CASE ~(content \/ calls # <<>>)
    <2>1. Wordless(longer)
      BY <1>7, <1>9, <1>10, <1>11 DEF Wordless
    <2> QED
      BY <1>4, <2>1 DEF GoesOn, longer
  <1>12. CASE CallIds(calls) \cap IdsOf(Before(history, n)) # {}
    <2>1. PICK id \in CallIds(calls) : id \in IdsOf(Before(history, n))
      BY <1>12
    <2>2. PICK c \in Before(history, n) : c.id = id
      BY <2>1 DEF IdsOf
    <2>3. PICK i \in 1 .. n : c \in ToSet(history[i].calls)
      BY <2>2 DEF Before
    <2>4. id \in CallIds(history[i].calls)
      BY <2>2, <2>3 DEF CallIds, ToSet
    <2>5. i \in DOMAIN longer /\ i # n + 1 /\ longer[i] = history[i]
      BY <1>9, <2>3
    <2>6. SharedIds(longer)
      BY <1>7, <1>9, <1>10, <2>1, <2>4, <2>5 DEF SharedIds
    <2> QED
      BY <1>4, <2>6 DEF GoesOn, longer
  <1>13. CASE /\ content \/ calls # <<>>
              /\ CallIds(calls) \cap IdsOf(Before(history, n)) = {}
    <2>1. ValidMessages(longer, Tools)
      BY <1>2, <1>3, <1>5, <1>13, ContinuedIsValid DEF longer, answer, n, content, calls
    <2> QED
      BY <1>4, <2>1 DEF GoesOn, longer
  <1> QED
    BY <1>11, <1>12, <1>13

\* Who only goes on is refused for nothing else.
LEMMA HonestStatus ==
  ASSUME ChatInv, step = "answered", chat.honest, reply.status \in 400 .. 499,
         ValidMessages(chat.messages, Tools),
         ToSet(Route) \cap Translated = {} \/ StructuredArguments(chat.messages)
  PROVE  FALSE
  <1>1. /\ IsHonest(chat) /\ IsTable(table)
        /\ reply.status \in {0, 200, 400, 401, 404, 502}
        /\ reply.status \notin {200, 502} => reply.status = Status
    BY DEF ChatInv, Asked, Kept, Replied, Statuses
  <1>2. Status # 200
    BY <1>1
  <1>3. /\ chat.authorized = TRUE /\ chat.sound = TRUE
        /\ chat.model \in ServedModels /\ chat.tools = Tools
        /\ chat.limits = {"max_tokens"}
    BY <1>1 DEF IsHonest
  <1>4. PICK i \in DOMAIN table : table[i].model_name = chat.model
    BY <1>3 DEF ServedModels
  <1>5. Named(chat.model)
    BY <1>1, <1>4 DEF IsTable
  <1>6. Route # <<>>
    <2>1. i \in RouteAt(table, chat.model)
      BY <1>4 DEF RouteAt
    <2> QED
      BY <1>1, <2>1, RouteIsSeq DEF Route
  <1>7. ValidRequest(chat)
    <2>1. NamedTool \in Tools
      BY AssemblerAssumption
    <2>2. chat.limits # Limits
      BY <1>3 DEF Limits
    <2> QED
      BY <1>3, <2>1, <2>2 DEF ValidRequest, ValidChoice
  <1>8. ValidForRoute(chat, Route)
    BY <1>3 DEF ValidForRoute
  <1>9. Status = 200
    <2>1. ~(gate = "key" /\ ~chat.authorized)
      BY <1>3
    <2>2. ~(chat.model = "")
      BY <1>5, Zenon DEF Named
    <2>3. ~(Route = <<>>)
      BY <1>6
    <2>4. ValidRequest(chat) /\ ValidForRoute(chat, Route)
      BY <1>7, <1>8
    <2> QED
      BY <2>1, <2>2, <2>3, <2>4, ZenonT(30) DEF Status
  <1> QED
    BY <1>2, <1>9

LEMMA InitHistoryInv == Init => HistoryInv
  BY DEF Init, ChatInit, HistoryInv

\* Only Continue adds to what was said.
LEMMA HistoryInvKept == AppInv /\ HistoryInv /\ [Next]_vars => HistoryInv'
  <1> SUFFICES ASSUME AppInv, HistoryInv, [Next]_vars PROVE HistoryInv'
    OBVIOUS
  <1>1. ChatInv
    BY DEF AppInv
  <1>2. ASSUME UNCHANGED <<history, step>> PROVE HistoryInv'
    BY <1>2 DEF HistoryInv, GoesOn, Wordless, SharedIds
  <1>3. CASE StartNext /\ UNCHANGED chatVars
    BY <1>2, <1>3 DEF chatVars
  <1>4. CASE Serve /\ Opens(config.routes, cli.no_auth)
    <2>1. history' \in Openings
      BY <1>4 DEF Opens
    <2>2. ValidMessages(history', Tools)
      BY <2>1, ChatAssumption
    <2> QED
      BY <2>2 DEF HistoryInv, GoesOn
  <1>5. CASE ChatNext
    <2>1. CASE Continue
      <3>1. GoesOn(history')
        BY <1>1, <2>1, ContinueGoesOn
      <3> QED
        BY <3>1 DEF HistoryInv, GoesOn, Wordless, SharedIds
    <2>2. ASSUME history' = history, step # "closed" PROVE HistoryInv'
      BY <2>2 DEF HistoryInv, GoesOn, Wordless, SharedIds
    <2>3. CASE Ask \/ Reject \/ Accept \/ Send \/ AttemptFails \/ ProviderAnswers \/ Restart
      <3>1. NextTarget => history' = history
        BY DEF NextTarget, Answer
      <3>2. CASE Ask \/ Reject \/ Accept \/ Send
        BY <2>2, <3>2 DEF Ask, Reject, Accept, Send, Answer
      <3>3. CASE AttemptFails
        BY <2>2, <3>1, <3>3 DEF AttemptFails
      <3>4. CASE ProviderAnswers
        <4>1. history' = history
          BY <3>1, <3>4 DEF ProviderAnswers, Answer
        <4>2. step = "sent"
          BY <3>4 DEF ProviderAnswers
        <4> QED
          BY <2>2, <4>1, <4>2
      <3>5. CASE Restart
        BY <2>2, <3>5 DEF Restart
      <3> QED
        BY <2>3, <3>2, <3>3, <3>4, <3>5
    <2> QED
      BY <1>5, <2>1, <2>3 DEF ChatNext
  <1>6. CASE UNCHANGED vars
    BY <1>2, <1>6 DEF vars, chatVars
  <1> QED
    BY <1>3, <1>4, <1>5, <1>6 DEF Next

----------------------------------------------------------------------------
(***************************************************************************)
(* Where the arguments come from that are no object: of a target that      *)
(* gives them on as they come, in the route of the model that was asked.   *)
(***************************************************************************)
Sources ==
  \A i \in Loose(history) \cap DOMAIN origin :
    origin[i].provider \in ToSet(GetRoute(table, origin[i].model)) \ Translated

Provenance ==
  /\ step = "answered" /\ reply.status = 200 =>
       /\ attempt \in DOMAIN Route
       /\ Route[attempt] \in Translated => WholeCalls(reply.calls)
  /\ IF step = "closed" THEN origin = <<>> ELSE Sources

LEMMA InitProvenance == Init => Provenance
  BY DEF Init, ChatInit, Provenance

\* A target that is asked answers in its own way.
LEMMA AnsweredBy ==
  ASSUME ChatInv, ProviderAnswers, step' = "answered", reply'.status = 200
  PROVE  /\ Route' = Route /\ attempt' = attempt /\ attempt \in DOMAIN Route
         /\ Route[attempt] \in Translated => WholeCalls(reply'.calls)
  <1>1. PICK body \in Bodies :
          LET done == Completed(Route[attempt], ToolChoice(chat), body, nextId)
          IN /\ nextId' = done.next
             /\ IF done.good
                THEN Answer([status |-> 200, content |-> done.content, calls |-> done.calls])
                ELSE NextTarget
    BY DEF ProviderAnswers
  <1> DEFINE done == Completed(Route[attempt], ToolChoice(chat), body, nextId)
             given == [status |-> 200, content |-> done.content, calls |-> done.calls]
  <1>2. /\ done.good => Answer(given)
        /\ ~done.good => NextTarget
    BY <1>1
  <1>3. attempt \in DOMAIN Route /\ nextId \in Ids
    BY DEF ProviderAnswers, ChatInv, Underway, Kept
  <1>4. body.parts \in Seq(PartType)
    BY ChatAssumption
  <1>5. Route[attempt] \in Translated /\ done.good => WholeCalls(done.calls)
    BY <1>3, <1>4, CompletedIsWhole
  <1>6. given.calls = done.calls
    OBVIOUS
  <1> HIDE DEF done, given
  <1>7. done.good
    <2> SUFFICES ASSUME NextTarget PROVE FALSE
      BY <1>2
    <2>1. attempt = Len(Route) => reply' = [status |-> 502]
      BY DEF NextTarget, Answer
    <2>2. attempt # Len(Route) => step' = "routing"
      BY DEF NextTarget
    <2> QED
      BY <2>1, <2>2
  <1>8. reply' = given /\ UNCHANGED <<table, gate, chat, attempt>>
    BY <1>2, <1>7 DEF Answer
  <1>9. Route' = Route
    BY <1>8, SameStatus
  <1> QED
    BY <1>3, <1>5, <1>6, <1>7, <1>8, <1>9

\* What a client goes on with calls nothing.
LEMMA FollowUpsCallNothing ==
  ASSUME GoodCallList(reply.calls), NEW after \in FollowUps
  PROVE  \A i \in DOMAIN after : after[i].calls = <<>>
  <1>1. CASE reply.calls = <<>>
    <2>1. after = <<Message("user", TRUE, <<>>, NoId)>>
      BY <1>1 DEF FollowUps
    <2> QED
      BY <2>1 DEF Message
  <1>2. CASE reply.calls # <<>>
    <2> DEFINE results == ResultsOf(reply.calls)
    <2>1. after \in SetToSeqs(results)
      BY <1>2 DEF FollowUps, ResultsOf, ResultFor
    <2>2. \A result \in results : result.calls = <<>>
      BY DEF ResultsOf, ResultFor, Message
    <2> HIDE DEF results
    <2>3. after \in [1 .. Cardinality(results) -> results]
      BY <2>1 DEF SetToSeqs
    <2> QED
      BY <2>2, <2>3
  <1> QED
    BY <1>1, <1>2

\* An answer that is taken up has its origin.
LEMMA ContinueRemembers ==
  ASSUME ChatInv, Provenance, Continue, Remember
  PROVE  Sources'
  <1>1. step = "answered" /\ reply.status = 200 /\ table' = table
    BY DEF Continue
  <1>2. /\ Typed(history)
        /\ reply.content \in BOOLEAN /\ GoodCallList(reply.calls)
    BY <1>1 DEF ChatInv, Kept, Replied
  <1> DEFINE answer == Message("assistant", reply.content, reply.calls, NoId)
             n == Len(history)
             giver == [model |-> chat.model, provider |-> Route[attempt]]
  <1>3. PICK after \in FollowUps : history' = history \o <<answer>> \o after
    BY DEF Continue
  <1>4. Typed(after) /\ \A i \in DOMAIN after : after[i].calls = <<>>
    BY <1>2, FollowUpsTyped, FollowUpsCallNothing
  <1>5. answer.calls = reply.calls
    BY Zenon DEF Message
  <1>6. answer \in MessageType
    BY <1>2, AnswerTyped DEF GoodCallList
  <1>7. giver.model = chat.model /\ giver.provider = Route[attempt]
    OBVIOUS
  <1>8. /\ DOMAIN origin' = DOMAIN origin \cup {n + 1}
        /\ \A i \in DOMAIN origin' : origin'[i] = IF i = n + 1 THEN giver ELSE origin[i]
    BY <1>1, Zenon DEF Remember
  <1> HIDE DEF answer, giver
  <1>9. /\ n \in Nat /\ Len(after) \in Nat
        /\ DOMAIN history = 1 .. n /\ DOMAIN after = 1 .. Len(after)
        /\ DOMAIN history' = 1 .. (n + 1) + Len(after)
        /\ \A i \in 1 .. n : history'[i] = history[i]
        /\ history'[n + 1] = answer
        /\ \A k \in 1 .. Len(after) : history'[(n + 1) + k] = after[k]
    BY <1>2, <1>3, <1>4, <1>6, Joints DEF Typed
  <1> SUFFICES ASSUME NEW i \in Loose(history') \cap DOMAIN origin'
               PROVE  origin'[i].provider \in ToSet(GetRoute(table, origin'[i].model)) \ Translated
    BY <1>1 DEF Sources, Loose
  <1>10. i \in DOMAIN history' /\ \E k \in DOMAIN history'[i].calls : history'[i].calls[k].args # "object"
    BY DEF Loose
  <1>11. CASE i \in 1 .. n
    <2>1. i # n + 1 /\ history'[i] = history[i]
      BY <1>9, <1>11
    <2>2. i \in Loose(history) \cap DOMAIN origin /\ origin'[i] = origin[i]
      BY <1>8, <1>9, <1>10, <1>11, <2>1 DEF Loose
    <2>3. Sources
      BY <1>1 DEF Provenance
    <2> QED
      BY <2>2, <2>3 DEF Sources
  <1>12. CASE i = n + 1
    <2>1. ~WholeCalls(reply.calls)
      BY <1>5, <1>9, <1>10, <1>12 DEF WholeCalls
    <2>2. attempt \in DOMAIN Route /\ Route[attempt] \notin Translated
      BY <1>1, <2>1 DEF Provenance
    <2>3. Route[attempt] \in ToSet(GetRoute(table, chat.model))
      BY <2>2 DEF ToSet, Route
    <2>4. origin'[i].model = chat.model /\ origin'[i].provider = Route[attempt]
      BY <1>7, <1>8, <1>12
    <2> QED
      BY <2>2, <2>3, <2>4
  <1>13. CASE i \in (n + 1) + 1 .. (n + 1) + Len(after)
    <2>1. i - (n + 1) \in 1 .. Len(after) /\ (n + 1) + (i - (n + 1)) = i
      BY <1>9, <1>13
    <2>2. history'[i].calls = <<>>
      BY <1>4, <1>9, <2>1
    <2> QED
      BY <1>10, <2>2
  <1>14. i \in 1 .. n \/ i = n + 1 \/ i \in (n + 1) + 1 .. (n + 1) + Len(after)
    BY <1>9, <1>10
  <1> QED
    BY <1>11, <1>12, <1>13, <1>14

\* Only Continue adds to what was said, and only an answer is said by a target.
LEMMA ProvenanceKept == AppInv /\ Provenance /\ [Next]_vars => Provenance'
  <1> SUFFICES ASSUME AppInv, Provenance, [Next]_vars PROVE Provenance'
    OBVIOUS
  <1>1. ChatInv
    BY DEF AppInv
  <1>2. ASSUME UNCHANGED <<table, history, origin>>, step # "closed" PROVE Sources'
    BY <1>2 DEF Provenance, Sources, Loose
  <1>3. ASSUME UNCHANGED chatVars, UNCHANGED origin PROVE Provenance'
    <2>1. UNCHANGED <<table, gate, history, step, chat, attempt, reply>> /\ UNCHANGED origin
      BY <1>3 DEF chatVars
    <2>2. Route' = Route
      BY <2>1, SameStatus
    <2>3. step # "closed" => Sources'
      BY <1>2, <2>1
    <2> QED
      BY <2>1, <2>2, <2>3 DEF Provenance, WholeCalls
  <1>4. CASE Serve /\ Opens(config.routes, cli.no_auth) /\ UNCHANGED origin
    <2>1. step = "closed" /\ step' = "idle" /\ origin' = origin
      BY <1>4 DEF Opens
    <2>2. DOMAIN origin' = {}
      BY <2>1 DEF Provenance
    <2>3. Sources'
      BY <2>2 DEF Sources
    <2> QED
      BY <2>1, <2>3 DEF Provenance
  <1>5. CASE ChatNext /\ Remember
    <2>1. CASE Continue
      <3>1. Sources' /\ step' = "idle"
        BY <1>1, <1>5, <2>1, ContinueRemembers DEF Continue
      <3> QED
        BY <3>1 DEF Provenance
    <2>2. ASSUME step \notin {"closed", "answered"}, UNCHANGED <<table, history>> PROVE Sources'
      BY <1>2, <1>5, <2>2 DEF Remember
    <2>3. CASE Ask \/ Accept \/ Send \/ Restart
      <3>1. /\ step \notin {"closed", "answered"} /\ step' \notin {"closed", "answered"}
            /\ UNCHANGED <<table, history>>
        BY <2>3 DEF Ask, Accept, Send, Restart
      <3> QED
        BY <2>2, <3>1 DEF Provenance
    <2>4. CASE Reject
      <3>1. /\ step = "received" /\ step' = "answered" /\ Status # 200 /\ reply' = [status |-> Status]
            /\ UNCHANGED <<table, history>>
        BY <2>4 DEF Reject, Answer
      <3>2. reply'.status # 200
        BY <3>1
      <3> QED
        BY <2>2, <3>1, <3>2 DEF Provenance
    <2>5. ASSUME NextTarget
          PROVE  /\ UNCHANGED <<table, history>> /\ step' # "closed"
                 /\ ~(step' = "answered" /\ reply'.status = 200)
      <3>1. UNCHANGED <<table, history>> /\ step' # "closed"
        BY <2>5 DEF NextTarget, Answer
      <3>2. attempt = Len(Route) => reply' = [status |-> 502]
        BY <2>5 DEF NextTarget, Answer
      <3>3. attempt # Len(Route) => step' = "routing"
        BY <2>5 DEF NextTarget
      <3> QED
        BY <3>1, <3>2, <3>3
    <2>6. CASE AttemptFails
      BY <2>2, <2>5, <2>6 DEF AttemptFails, Provenance
    <2>7. CASE ProviderAnswers
      <3>1. step = "sent" /\ step' # "closed" /\ UNCHANGED <<table, history>>
        BY <2>5, <2>7 DEF ProviderAnswers, Answer
      <3>2. Sources'
        BY <2>2, <3>1
      <3>3. ASSUME step' = "answered", reply'.status = 200
            PROVE  /\ attempt' \in DOMAIN Route'
                   /\ Route'[attempt'] \in Translated => WholeCalls(reply'.calls)
        BY <1>1, <2>7, <3>3, AnsweredBy
      <3> QED
        BY <3>1, <3>2, <3>3 DEF Provenance, WholeCalls
    <2> QED
      BY <1>5, <2>1, <2>3, <2>4, <2>6, <2>7 DEF ChatNext
  <1> QED
    BY <1>3, <1>4, <1>5 DEF Next, vars

(***************************************************************************)
(* What the gateway says may be said back to it, in a conversation of any  *)
(* length and over any restarts: what the adapters and normalize_calls     *)
(* make of any answer is such that validate_messages lets the next request *)
(* through, but for an answer that was blocked without a word, an id of an *)
(* earlier answer that came again, arguments that another model gave, and  *)
(* arguments of a compatible target in a mixed route, which                *)
(* validate_route_tool_arguments refuses on the same route.                *)
(***************************************************************************)
THEOREM AnswersMayBeSaidBack == Spec => []AnswersContinue
  <1>1. AppInv /\ HistoryInv /\ Provenance => AnswersContinue
    <2> SUFFICES ASSUME AppInv, HistoryInv, Provenance,
                        step = "answered", chat.honest, reply.status \in 400 .. 499
                 PROVE  \/ Wordless(chat.messages) \/ SharedIds(chat.messages)
                        \/ Moved(chat.messages) \/ OwnJunk(chat.messages)
      BY DEF AnswersContinue
    <2>1. ChatInv
      BY DEF AppInv
    <2>2. chat.messages = history
      BY <2>1 DEF ChatInv, Asked, IsHonest
    <2>3. GoesOn(chat.messages)
      BY <2>2 DEF HistoryInv
    <2>4. CASE Wordless(chat.messages) \/ SharedIds(chat.messages)
      BY <2>4
    <2>5. CASE ValidMessages(chat.messages, Tools)
      <3>1. ToSet(Route) \cap Translated # {} /\ ~StructuredArguments(chat.messages)
        BY <2>1, <2>5, HonestStatus
      <3>2. PICK i \in Loose(chat.messages) : TRUE
        BY <3>1 DEF StructuredArguments, Loose
      <3>3. CASE i \notin OfThisModel
        BY <3>1, <3>2, <3>3 DEF Moved
      <3>4. CASE i \in OfThisModel
        <4>1. i \in DOMAIN origin /\ origin[i].model = chat.model
          BY <3>4 DEF OfThisModel
        <4>2. origin[i].provider \in ToSet(GetRoute(table, origin[i].model)) \ Translated
          BY <2>2, <3>2, <4>1 DEF Provenance, Sources
        <4>3. origin[i].provider \in ToSet(Route) \ Translated
          BY <4>1, <4>2 DEF Route
        <4> QED
          BY <3>1, <3>2, <3>4, <4>3 DEF OwnJunk
      <3> QED
        BY <3>3, <3>4
    <2> QED
      BY <2>3, <2>4, <2>5 DEF GoesOn
  <1>2. Init => AppInv /\ HistoryInv /\ Provenance
    BY InitAppInv, InitHistoryInv, InitProvenance
  <1>3. AppInv /\ HistoryInv /\ Provenance /\ [Next]_vars => (AppInv /\ HistoryInv /\ Provenance)'
    BY AppInvKept, HistoryInvKept, ProvenanceKept
  <1> QED
    BY <1>1, <1>2, <1>3, PTL DEF Spec
============================================================================
