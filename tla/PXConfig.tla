------------------------------ MODULE PXConfig ------------------------------
(***************************************************************************)
(* What talisman computes from the objects it reads, before it acts: the   *)
(* configuration of the Portworx DaemonSet (parseConfigFromDaemonset,      *)
(* extractEnv, splitCSV), the kvdb client (getKVDBClient, wipePXKvdb), the *)
(* ports of the refreshed services (upgradePX, checkAPIService) in         *)
(* pkg/cluster/px/px.go, the search for unmanaged pods                     *)
(* (IsAnyPXAppPodUnmanaged, isPodUsingPxVolume) in pkg/k8sutils, and the   *)
(* version gate.                                                           *)
(*                                                                         *)
(* A behaviour is one call: Init chooses the objects.  The loops over the  *)
(* arguments and over the endpoints take one step per iteration, the       *)
(* refresh of the services one per request, and it may be repeated; the    *)
(* other functions compute their result in one.  Texts are abstracted to   *)
(* what the code looks at: a CSV to its records, "user:password" to its    *)
(* parts, an endpoint to the tokens between its colons.                    *)
(***************************************************************************)
EXTENDS VersionGate, SequencesExt

CONSTANTS
    ArgLists,      \* argument lists of the portworx container
    Records,       \* Records[a]: the CSV records of an argument, or Malformed
    Parts,         \* Parts[a]: the parts of an argument between colons
    Envs,          \* environments of the container
    Var,           \* Var[t]: the variable that the text t = "$NAME" names
    Secrets,       \* Secrets[v]: the secret key of variable v: a text, "" if missing, or Malformed
    EndpointLists, \* kvdb endpoints, each the tokens between its colons
    Answers,       \* what an endpoint says of its version: "etcd2", "etcd3", "odd", "down"
    Services,      \* portworx-service as its owner made it: port -> target port
    APIServices,   \* portworx-api, without any port if it is not there
    MaxRefreshes,  \* bound on the repeated refreshes of the services
    PodLists,      \* pods of the cluster
    LabelLists,    \* version labels of the nodes, in the order of Enumerate
    Tags,          \* tags to upgrade to
    Malformed      \* a text that cannot be parsed, a lookup that fails

VARIABLES
    call,   \* the function that is called
    in,     \* its argument
    at,     \* the iterations of the current loop, or the refreshes, that are done
    token,  \* getKVDBClient: the tokens of the endpoint that are done, 0 between endpoints
    out     \* its result, so far

vars == <<call, in, at, token, out>>

Open == [outcome |-> "open"]

-----------------------------------------------------------------------------
(***************************************************************************)
(* The loop over the arguments of the portworx container.  The argument    *)
(* after a flag is read as its value and is then looked at as a flag       *)
(* itself; the last occurrence of a flag wins; a malformed value ends the  *)
(* loop; a flag that is the last argument indexes past the slice.          *)
(***************************************************************************)
Credentials == {"-pwd", "-userpwd"}
Files       == {"-ca", "-cert", "-key", "-acl"}
ValueFlags  == {"-c", "-k"} \cup Credentials \cup Files

NoConfig ==
    [outcome |-> "open", internal |-> FALSE, cluster |-> "", endpoints |-> <<>>,
     user |-> "", password |-> "", files |-> [f \in Files |-> ""]]

\* splitCSV: no record at all is an empty list, several lines are an error.
splitCSV(text) ==
    IF Records[text] = Malformed \/ Len(Records[text]) > 1 THEN Malformed
    ELSE IF Records[text] = <<>> THEN <<>> ELSE Records[text][1]

\* Faulty variant: the first occurrence of -k wins.
ReadValueFirstWins(c, flag, value) ==
    CASE flag = "-c" -> [c EXCEPT !.cluster = value]
      [] flag = "-k" -> IF splitCSV(value) = Malformed
                        THEN [c EXCEPT !.outcome = "error"]
                        ELSE IF c.endpoints = <<>> THEN [c EXCEPT !.endpoints = splitCSV(value)] ELSE c
      [] flag \in Credentials ->
            IF Len(Parts[value]) < 2
            THEN [c EXCEPT !.outcome = "error"]
            ELSE [c EXCEPT !.user = Parts[value][1], !.password = Parts[value][2]]
      [] flag \in Files -> [c EXCEPT !.files[flag] = value]

ReadValue(c, flag, value) ==
    CASE flag = "-c" -> [c EXCEPT !.cluster = value]
      [] flag = "-k" -> IF splitCSV(value) = Malformed
                        THEN [c EXCEPT !.outcome = "error"]
                        ELSE [c EXCEPT !.endpoints = splitCSV(value)]
      [] flag \in Credentials ->
            IF Len(Parts[value]) < 2
            THEN [c EXCEPT !.outcome = "error"]
            ELSE [c EXCEPT !.user = Parts[value][1], !.password = Parts[value][2]]
      [] flag \in Files -> [c EXCEPT !.files[flag] = value]

ReadArg(args, c, i) ==
    IF args[i] = "-b" THEN [c EXCEPT !.internal = TRUE]
    ELSE IF args[i] \notin ValueFlags THEN c
    ELSE IF i = Len(args) THEN [c EXCEPT !.outcome = "panic"]
    ELSE ReadValue(c, args[i], args[i + 1])

(***************************************************************************)
(* extractEnv: the first entry of that name with a value or a source       *)
(* decides; a text that names no such entry stays as it is.                *)
(***************************************************************************)
extractEnv(text, env) ==
    IF text \notin DOMAIN Var THEN text
    ELSE LET i == SelectInSeq(env, LAMBDA e : e.name = Var[text] /\ (e.value # "" \/ e.from # "none"))
         IN IF i = 0 THEN text
            ELSE IF env[i].value # "" THEN env[i].value
            ELSE IF env[i].from = "secret" THEN Secrets[env[i].name]
            ELSE Malformed

\* Faulty variant: only the user is looked up.
ResolveUserOnly(c, env) ==
    LET user == extractEnv(c.user, env)
    IN IF c.user \notin DOMAIN Var THEN c
       ELSE IF user = Malformed THEN [c EXCEPT !.outcome = "error"]
       ELSE [c EXCEPT !.user = user]

\* The password is looked up only if the user is a reference.
Resolve(c, env) ==
    LET user     == extractEnv(c.user, env)
        password == extractEnv(c.password, env)
    IN IF c.user \notin DOMAIN Var THEN c
       ELSE IF user = Malformed \/ password = Malformed THEN [c EXCEPT !.outcome = "error"]
       ELSE [c EXCEPT !.user = user, !.password = password]

\* What follows the loop.
Conclude(c, env) ==
    LET r == Resolve(c, env)
    IN IF r.outcome # "open" THEN r
       ELSE [r EXCEPT !.outcome = IF r.internal THEN "internal"
                                  ELSE IF r.endpoints = <<>> \/ r.cluster = "" THEN "error"
                                  ELSE "ok"]

parseArgument ==
    /\ out.outcome = "open"
    /\ at < Len(in.args)
    /\ at' = at + 1
    /\ out' = ReadArg(in.args, out, at')
    /\ UNCHANGED <<call, in, token>>

parseConfigFromDaemonset ==
    /\ out.outcome = "open"
    /\ at = Len(in.args)
    /\ out' = Conclude(out, in.env)
    /\ UNCHANGED <<call, in, at, token>>

-----------------------------------------------------------------------------
(***************************************************************************)
(* wipePXKvdb, up to the DeleteTree of a client it got, and getKVDBClient: *)
(* the first loop normalises all endpoints, token by token, the second     *)
(* takes the version from the first one that answers.                      *)
(***************************************************************************)
NoClient == [outcome |-> "open", urlPrefix |-> "", kvdbURL |-> <<>>, urls |-> <<>>, version |-> ""]

wipePXKvdb ==
    /\ out.outcome = "open"
    /\ out' = [out EXCEPT !.outcome =
                  IF in.endpoints = <<>> \/ in.cluster = "" THEN "error" ELSE "normalise"]
    /\ UNCHANGED <<call, in, at, token>>

Schemes == {"http", "https"}

\* Faulty variant: an endpoint without a scheme keeps the one before it.
schemeKept(before, parts) ==
    IF parts[2] \in Schemes THEN parts[2] ELSE IF before = "" THEN "http" ELSE before

\* The scheme of an endpoint, "http" by default; urlPrefix is declared outside the loop.
scheme(before, parts) == IF parts[2] \in Schemes THEN parts[2] ELSE "http"

\* The scheme takes the place of the first token, and of the second if it is there.
\* An endpoint without a colon has no second token to read.
beginEndpoint ==
    /\ out.outcome = "normalise" /\ token = 0
    /\ at < Len(in.endpoints)
    /\ LET parts  == in.endpoints[at + 1]
           prefix == scheme(out.urlPrefix, parts)
       IN \/ /\ at = 0 /\ parts[1] # "etcd"
             /\ out' = [out EXCEPT !.outcome = "error"]
             /\ UNCHANGED token
          \/ /\ at = 0 => parts[1] = "etcd"
             /\ Len(parts) = 1
             /\ out' = [out EXCEPT !.outcome = "panic"]
             /\ UNCHANGED token
          \/ /\ at = 0 => parts[1] = "etcd"
             /\ Len(parts) > 1
             /\ out' = [out EXCEPT !.urlPrefix = prefix, !.kvdbURL = <<prefix>>]
             /\ token' = IF parts[2] \in Schemes THEN 2 ELSE 1
    /\ UNCHANGED <<call, in, at>>

readToken ==
    /\ out.outcome = "normalise" /\ token # 0
    /\ token < Len(in.endpoints[at + 1])
    /\ token' = token + 1
    /\ LET v == in.endpoints[at + 1][token']
       IN out' = IF v = "" THEN out ELSE [out EXCEPT !.kvdbURL = Append(@, v)]
    /\ UNCHANGED <<call, in, at>>

endEndpoint ==
    /\ out.outcome = "normalise" /\ token # 0
    /\ token = Len(in.endpoints[at + 1])
    /\ token' = 0
    /\ at' = at + 1
    /\ out' = [out EXCEPT !.urls = Append(@, out.kvdbURL)]
    /\ UNCHANGED <<call, in>>

endNormalise ==
    /\ out.outcome = "normalise" /\ token = 0
    /\ at = Len(in.endpoints)
    /\ at' = 0
    /\ out' = [out EXCEPT !.outcome = "ask"]
    /\ UNCHANGED <<call, in, token>>

\* The last endpoint that does not answer ends the loop with its error.
askVersion ==
    /\ out.outcome = "ask"
    /\ at' = at + 1
    /\ LET answer == in.answers[at']
       IN out' = IF answer = "down"
                 THEN [out EXCEPT !.outcome = IF at' = Len(in.endpoints) THEN "error" ELSE @]
                 ELSE IF answer = "odd" THEN [out EXCEPT !.outcome = "error"]
                 ELSE [out EXCEPT !.outcome = "new", !.version = answer]
    /\ UNCHANGED <<call, in, token>>

\* kvdb.New with the endpoints, for the version that was found: its error is
\* that of getKVDBClient.
newClient ==
    /\ out.outcome = "new"
    /\ out' = [out EXCEPT !.outcome = IF in.created THEN "ok" ELSE "error"]
    /\ UNCHANGED <<call, in, at, token>>

-----------------------------------------------------------------------------
(***************************************************************************)
(* The end of upgradePX for a DaemonSet: the target ports of               *)
(* portworx-service are read and sent to it and to portworx-api.           *)
(*                                                                         *)
(* External: a patch of a service is merged into its list of ports by the  *)
(* port, and a target port 0 is stored as the port itself, the default.    *)
(***************************************************************************)
ServicePorts == {9001, 9019, 9020, 9021}
APIPorts     == {9001, 9020, 9021}

\* TargetPort.IntVal: a named target port has the integer value 0.
IntVal(target) == IF target.type = "name" THEN 0 ELSE target.number
Number(n)      == [type |-> "number", number |-> n]

Stored(p, n) == IF n = 0 THEN p ELSE n

\* The service after the target ports of ports have been sent to it.
Merge(service, ports, targets) ==
    [p \in DOMAIN service \cup ports |->
       IF p \in ports THEN Number(Stored(p, targets[p])) ELSE service[p]]

\* The defaults, overridden by what the service has.
targetPorts(service) ==
    [p \in ServicePorts |-> IF p \in DOMAIN service THEN IntVal(service[p]) ELSE p]

NoRefresh(i) ==
    [outcome |-> "open", service |-> i.service, api |-> i.api, targets |-> targetPorts(<<>>)]

GetService ==
    /\ out.outcome = "open"
    /\ out' = [out EXCEPT !.outcome = "patch", !.targets = targetPorts(out.service)]
    /\ UNCHANGED <<call, in, at, token>>

PatchService ==
    /\ out.outcome = "patch"
    /\ out' = [out EXCEPT !.outcome = "api",
                          !.service = Merge(out.service, ServicePorts, out.targets)]
    /\ UNCHANGED <<call, in, at, token>>

\* Faulty variant: portworx-api gets the default target ports.
checkAPIServiceDefaults ==
    /\ out.outcome = "api"
    /\ out' = [out EXCEPT !.outcome = "ok", !.api = Merge(out.api, APIPorts, targetPorts(<<>>))]
    /\ UNCHANGED <<call, in, at, token>>

\* Created with these ports if it is not there, patched otherwise.
checkAPIService ==
    /\ out.outcome = "api"
    /\ out' = [out EXCEPT !.outcome = "ok", !.api = Merge(out.api, APIPorts, out.targets)]
    /\ UNCHANGED <<call, in, at, token>>

\* A request fails, or only its answer is lost.
RefreshFails ==
    /\ \/ /\ out.outcome \in {"open", "patch", "api"}
          /\ out' = [out EXCEPT !.outcome = "error"]
       \/ /\ out.outcome = "patch"
          /\ out' = [out EXCEPT !.outcome = "error",
                                !.service = Merge(out.service, ServicePorts, out.targets)]
       \/ /\ out.outcome = "api"
          /\ out' = [out EXCEPT !.outcome = "error",
                                !.api = Merge(out.api, APIPorts, out.targets)]
    /\ UNCHANGED <<call, in, at, token>>

\* The next DaemonSet of the namespace, or the next attempt of the upgrade.
RefreshAgain ==
    /\ out.outcome \in {"ok", "error"}
    /\ at < MaxRefreshes
    /\ at' = at + 1
    /\ out' = [out EXCEPT !.outcome = "open"]
    /\ UNCHANGED <<call, in, token>>

-----------------------------------------------------------------------------
\* What the lookups say of a volume of a pod.
UsesPX  == {"direct", "pxVolume", "pxClass"}
Unknown == {"claimMissing", "unboundPX", "classFails"}
NotPX   == {"other", "noClass", "otherClass"}

\* Faulty variant: a failed lookup is skipped.
isPodUsingPxVolumeLenient(volumes) ==
    IF \E i \in DOMAIN volumes : volumes[i] \in UsesPX THEN "yes" ELSE "no"

\* The first volume that is not ruled out decides.
isPodUsingPxVolume(volumes) ==
    LET i == SelectInSeq(volumes, LAMBDA v : v \notin NotPX)
    IN IF i = 0 THEN "no" ELSE IF volumes[i] \in UsesPX THEN "yes" ELSE "error"

\* The places of the pods that use Portworx, and whether a lookup failed.
getPodsUsingPX(pods) ==
    LET says(answer) == {i \in DOMAIN pods : isPodUsingPxVolume(pods[i].volumes) = answer}
    IN [pods |-> says("yes"), err |-> says("error") # {}]

IsAnyPXAppPodUnmanaged(pods) ==
    LET px == getPodsUsingPX(pods)
    IN IF px.err THEN "error"
       ELSE IF \E i \in px.pods : ~pods[i].managed THEN "yes" ELSE "no"

-----------------------------------------------------------------------------
\* The types of the objects that are looked at one by one.  Numbers of versions
\* have one or two digits, target ports are names or numbers.
Digits == 0 .. 99
Label  == Digits \X Digits \X Digits
PortNumbers == 0 .. 65535
Target == {t \in [type : {"name", "number"}, number : PortNumbers] : t.type = "name" <=> t.number = 0}
Pod    == [managed : BOOLEAN, volumes : Seq(UsesPX \cup Unknown \cup NotPX)]
Entry  == [name : STRING, value : STRING, from : {"none", "secret", "other"}]

\* A service has one entry for each of its ports.
IsService(s) ==
    /\ s = [p \in DOMAIN s |-> s[p]]
    /\ DOMAIN s \subseteq PortNumbers \ {0} /\ \A p \in DOMAIN s : s[p] \in Target

ASSUME ConfigAssumption ==
    /\ ArgLists \subseteq Seq(STRING) /\ Envs \subseteq Seq(Entry)
    /\ EndpointLists \subseteq Seq(Seq(STRING) \ {<<>>})
    /\ \A s \in Services \cup APIServices : IsService(s)
    /\ MaxRefreshes \in Nat
    /\ PodLists \subseteq Seq(Pod)
    /\ LabelLists \subseteq Seq(Label \cup {NoLabel}) /\ NoLabel \notin Label
    /\ Tags \subseteq Seq(Digits) /\ Unparsable \notin Seq(Digits)

\* The calls with these endpoints.
KvdbCalls(l) ==
    [endpoints : {l}, answers : [DOMAIN l -> Answers], cluster : {"", "px"}, created : BOOLEAN]

Inputs == [
    config |-> {[args |-> a, env |-> e] : a \in ArgLists, e \in Envs},
    kvdb   |-> UNION {KvdbCalls(l) : l \in EndpointLists},
    ports  |-> [service : Services, api : APIServices],
    pods   |-> PodLists,
    gate   |-> {[labels |-> l, tag |-> t] : l \in LabelLists, t \in Tags}]

Init ==
    /\ call \in DOMAIN Inputs
    /\ in \in Inputs[call]
    /\ at = 0 /\ token = 0
    /\ out = CASE call = "config" -> NoConfig
               [] call = "kvdb"   -> NoClient
               [] call = "ports"  -> NoRefresh(in)
               [] OTHER           -> Open

Return(result) == out = Open /\ out' = result /\ UNCHANGED <<call, in, at, token>>

CheckPods    == call = "pods" /\ Return([outcome |-> IsAnyPXAppPodUnmanaged(in)])
AskGate      == call = "gate" /\ Return([outcome |-> isUpgradeAppDrainRequired(in.labels, in.tag)])

ParseConfig ==
    /\ call = "config"
    /\ parseArgument \/ parseConfigFromDaemonset

WipeKvdb ==
    /\ call = "kvdb"
    /\ \/ wipePXKvdb \/ beginEndpoint \/ readToken \/ endEndpoint
       \/ endNormalise \/ askVersion \/ newClient

RefreshPorts ==
    /\ call = "ports"
    /\ GetService \/ PatchService \/ checkAPIService \/ RefreshFails \/ RefreshAgain

Next == ParseConfig \/ WipeKvdb \/ RefreshPorts \/ CheckPods \/ AskGate

Spec == Init /\ [][Next]_vars

Returned(c) == call = c /\ out.outcome \notin {"open", "normalise", "ask", "new", "patch", "api"}

-----------------------------------------------------------------------------
(***************************************************************************)
(* The arguments are well formed: they can be cut into flags with a value  *)
(* that is not a flag itself, and single arguments.                        *)
(***************************************************************************)
IsFlag(a) == a = "-b" \/ a \in ValueFlags

WellFormed(args) ==
    \A i \in DOMAIN args : args[i] \in ValueFlags => i < Len(args) /\ ~IsFlag(args[i + 1])

\* Reference: the last of the first n arguments that is a flag of F.
LastFlag(args, n, F) ==
    {i \in 1 .. n : args[i] \in F /\ \A k \in 1 .. n : args[k] \in F => k <= i}

\* The value is the one after that flag in values, or the default if there is none.
IsRead(value, values, args, n, F, default) ==
    IF LastFlag(args, n, F) = {} THEN value = default
    ELSE \E i \in LastFlag(args, n, F) : value = values[i + 1]

\* Every option has the value of its last occurrence, and no value was malformed.
OptionsAreRead(c, args, n) ==
    /\ c.internal <=> \E i \in 1 .. n : args[i] = "-b"
    /\ IsRead(c.cluster, args, args, n, {"-c"}, "")
    /\ IsRead(c.endpoints, [i \in DOMAIN args |-> splitCSV(args[i])], args, n, {"-k"}, <<>>)
    /\ \A f \in Files : IsRead(c.files[f], args, args, n, {f}, "")
    /\ \A i \in 1 .. n : /\ args[i] = "-k" => splitCSV(args[i + 1]) # Malformed
                         /\ args[i] \in Credentials => ~(Len(Parts[args[i + 1]]) < 2)

(***************************************************************************)
(* parseConfigFromDaemonset reads well formed arguments as Portworx does:  *)
(* every option has the value of its last occurrence, whatever stands      *)
(* between, and the outcome says whether the kvdb can be reached           *)
(* (endpoints and a cluster name, or an internal kvdb).                    *)
(***************************************************************************)
ArgumentsAreUnderstood ==
    Returned("config") /\ WellFormed(in.args) /\ out.outcome \in {"ok", "internal"} =>
       /\ OptionsAreRead(out, in.args, Len(in.args))
       /\ ~out.internal => out.endpoints # <<>> /\ out.cluster # ""

\* The entries of env that say something of the variable that t names.
Decisive(t, env) ==
    {i \in DOMAIN env : env[i].name = Var[t] /\ (env[i].value # "" \/ env[i].from # "none")}

\* r is the value that an entry of env gives to it.
ResolvedBy(t, env, r) ==
    \E i \in Decisive(t, env) :
       IF env[i].value # "" THEN r = env[i].value
       ELSE env[i].from = "secret" /\ r = Secrets[env[i].name] /\ r # Malformed

(***************************************************************************)
(* When user and password are both references to variables that the        *)
(* container defines, a parse that succeeds returns the values of the      *)
(* variables: the kvdb is never asked with the text of a variable name     *)
(* (extractEnv).                                                           *)
(***************************************************************************)
ReferencesAreResolved ==
    Returned("config") /\ out.outcome \in {"ok", "internal"} =>
       \A i \in LastFlag(in.args, Len(in.args), Credentials) :
          LET given == Parts[in.args[i + 1]]
          IN (\A k \in {1, 2} : given[k] \in DOMAIN Var /\ Decisive(given[k], in.env) # {})
             => /\ ResolvedBy(given[1], in.env, out.user)
                /\ ResolvedBy(given[2], in.env, out.password)

\* etcd://host:port, etcd:http://host:port or etcd:https://host:port
WellFormedEndpoint(parts) ==
    /\ Len(parts) \in {3, 4} /\ parts[1] = "etcd" /\ \A k \in DOMAIN parts : parts[k] # ""
    /\ Len(parts) = 4 <=> parts[2] \in Schemes

\* The scheme, which is "http" by default, the host and the port of it.
URLOf(parts) ==
    IF Len(parts) = 4 THEN <<parts[2], parts[3], parts[4]>> ELSE <<"http", parts[2], parts[3]>>

(***************************************************************************)
(* Every endpoint is normalised by itself: it keeps its own scheme, host   *)
(* and port whatever the endpoints around it are, and one endpoint that    *)
(* answers is enough to get to kvdb.New, however many before it are down.  *)
(***************************************************************************)
EndpointsAreIndependent ==
    Returned("kvdb") /\ in.endpoints # <<>> /\ (\A i \in DOMAIN in.endpoints : WellFormedEndpoint(in.endpoints[i])) =>
       /\ out.outcome # "panic"
       /\ out.outcome = "ok" =>
             out.urls = [i \in DOMAIN in.endpoints |-> URLOf(in.endpoints[i])]
       /\ (\E i \in DOMAIN in.answers : in.answers[i] # "down") /\ in.cluster # ""
             /\ (\A i \in DOMAIN in.answers : in.answers[i] # "odd")
          => (out.outcome = "ok" <=> in.created)

\* The number that an owner's target port amounts to: a name is replaced by
\* the port itself, as a port that is not there is.
Kept(owner, p) == IF p \in DOMAIN owner /\ owner[p].type = "number" THEN owner[p].number ELSE p

(***************************************************************************)
(* Refreshes, repeated after failures and lost answers, leave every port   *)
(* of portworx-service with its owner's target; of the ports of Portworx a *)
(* named target may have become the port's own number, and stays that.     *)
(* After a refresh that succeeds portworx-api agrees, and its other ports  *)
(* are its owner's.                                                        *)
(***************************************************************************)
TargetPortsSurvive ==
    call = "ports" =>
       /\ DOMAIN in.service \subseteq DOMAIN out.service
       /\ \A p \in DOMAIN out.service :
             \/ p \in DOMAIN in.service /\ out.service[p] = in.service[p]
             \/ p \in ServicePorts /\ out.service[p] = Number(Kept(in.service, p))
       /\ \A p \in DOMAIN in.api \ APIPorts : out.api[p] = in.api[p]
       /\ out.outcome = "ok" =>
             /\ \A p \in ServicePorts : out.service[p] = Number(Kept(in.service, p))
             /\ \A p \in APIPorts : out.api[p] = out.service[p]

(***************************************************************************)
(* The check for unmanaged pods never misses one: "no" means that every    *)
(* pod that uses a Portworx volume, or a claim that will become one, has a *)
(* controller.  Lookups that fail have to stop the upgrade.                *)
(***************************************************************************)
NoUnmanagedPodMissed ==
    Returned("pods") /\ out.outcome = "no" =>
       \A i \in DOMAIN in :
          (\E k \in DOMAIN in[i].volumes : in[i].volumes[k] \in UsesPX \cup {"unboundPX"})
          => in[i].managed

\* A number of two digits that begins with a digit of D.
Begins(n, D) == n \div 10 \in D

(***************************************************************************)
(* On a cluster whose nodes all run one labelled version the gate asks for *)
(* a drain whenever the comment of isUpgradeAppDrainRequired does.  It     *)
(* errs on one side only: a drain that the comment does not ask for needs  *)
(* a number of two digits, like 1.20 for 1.2 or 1.3.30 for 1.3.3, since    *)
(* texts are compared.                                                     *)
(***************************************************************************)
GateFollowsItsComment ==
    Returned("gate") /\ in.labels # <<>> /\ Len(in.tag) >= 3 =>
       \A v \in ToSet(in.labels) :
          v # NoLabel /\ ToSet(in.labels) = {v} =>
             /\ NeedsDrain(v, in.tag) => out.outcome = "yes"
             /\ out.outcome = "yes" =>
                   \/ NeedsDrain(v, in.tag)
                   \/ Begins(v[2], {2}) \/ Begins(in.tag[2], {3, 4}) \/ Begins(in.tag[3], {3, 4})
=============================================================================
