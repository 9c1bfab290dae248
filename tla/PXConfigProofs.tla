--------------------------- MODULE PXConfigProofs ---------------------------
(***************************************************************************)
(* Proofs about PXConfig, for objects of any size: the ports of the        *)
(* services, the search for unmanaged pods, the version gate, and the      *)
(* loops over the arguments and over the endpoints.                        *)
(***************************************************************************)
EXTENDS PXConfig, TLAPS, WellFoundedInduction

\* SelectInSeq: the least place of a non-empty set of places.
LEMMA LeastPlace ==
  ASSUME NEW T \in SUBSET Nat, T # {}
  PROVE  Min(T) \in T
<1>1. \E x \in T : \A y \in T : ~(<<y, x>> \in OpToRel(<, Nat))
  BY NatLessThanWellFounded, WFMin
<1>2. \A x, y \in Nat : x < y => <<x, y>> \in OpToRel(<, Nat)
  <2> SUFFICES ASSUME NEW x \in Nat, NEW y \in Nat, x < y
               PROVE  <<x, y>> \in {ss \in Nat \X Nat : ss[1] < ss[2]}
    BY DEF OpToRel
  <2> QED OBVIOUS
<1>3. \E x \in T : \A y \in T : ~(y < x)
  BY <1>1, <1>2, Zenon
<1>4. \E x \in T : \A y \in T : x <= y
  BY <1>3
<1> QED
  BY <1>4 DEF Min

-----------------------------------------------------------------------------
\* A behaviour is one call with one argument.
LEMMA SameCall == [Next]_vars => UNCHANGED <<call, in>>
  BY DEF Next, vars, ParseConfig, WipeKvdb, parseArgument, parseConfigFromDaemonset, wipePXKvdb,
         beginEndpoint, readToken, endEndpoint, endNormalise, askVersion, newClient,
         RefreshPorts, GetService, PatchService, checkAPIService, RefreshFails, RefreshAgain,
         CheckPods, AskGate, Return

\* A call that has returned has the result of its function.
ResultOK ==
    /\ call = "pods" => /\ in \in PodLists
                        /\ out \in {Open, [outcome |-> IsAnyPXAppPodUnmanaged(in)]}
    /\ call = "gate" =>
          /\ \E l \in LabelLists, t \in Tags : in = [labels |-> l, tag |-> t]
          /\ out \in {Open, [outcome |-> isUpgradeAppDrainRequired(in.labels, in.tag)]}

LEMMA InitResult == Init => ResultOK
<1> SUFFICES ASSUME Init PROVE ResultOK
  OBVIOUS
<1>2. CASE call = "pods"
  BY <1>2 DEF Init, ResultOK, Inputs
<1>3. CASE call = "gate"
  <2>1. in \in {[labels |-> l, tag |-> t] : l \in LabelLists, t \in Tags}
    BY <1>3 DEF Init, Inputs
  <2> QED BY <1>3, <2>1 DEF Init, ResultOK
<1> QED BY <1>2, <1>3 DEF ResultOK

LEMMA ResultNext == ResultOK /\ [Next]_vars => ResultOK'
<1> SUFFICES ASSUME ResultOK, [Next]_vars PROVE ResultOK'
  OBVIOUS
<1>1. CASE UNCHANGED vars
  BY <1>1 DEF vars, ResultOK
<1>2. CASE ParseConfig \/ WipeKvdb \/ RefreshPorts
  <2>1. UNCHANGED <<call, in>> /\ call \in {"config", "kvdb", "ports"}
    BY <1>2, SameCall DEF Next, ParseConfig, WipeKvdb, RefreshPorts
  <2> QED BY <2>1 DEF ResultOK
<1>4. CASE CheckPods
  BY <1>4 DEF CheckPods, Return, ResultOK
<1>5. CASE AskGate
  BY <1>5 DEF AskGate, Return, ResultOK
<1> QED BY <1>1, <1>2, <1>4, <1>5 DEF Next

-----------------------------------------------------------------------------
(***************************************************************************)
(* The refreshes.  The service is the owner's, or has the numbers that are *)
(* kept, for each of the ports of Portworx; reading it gives the numbers   *)
(* that are kept in either case, so that sending them again changes no     *)
(* target a second time.                                                   *)
(***************************************************************************)
IsRefresh(c) ==
    c = [outcome |-> c.outcome, service |-> c.service, api |-> c.api, targets |-> c.targets]

ServiceOK(service, owner) ==
    /\ DOMAIN owner \subseteq DOMAIN service
    /\ \A p \in DOMAIN service :
          \/ p \in DOMAIN owner /\ service[p] = owner[p]
          \/ p \in ServicePorts /\ service[p] = Number(Kept(owner, p))

AllKept(service, owner, ports) ==
    ports \subseteq DOMAIN service /\ \A p \in ports : service[p] = Number(Kept(owner, p))

OthersKept(api, owner) ==
    DOMAIN owner \subseteq DOMAIN api /\ \A p \in DOMAIN owner \ APIPorts : api[p] = owner[p]

TargetsKept(targets, owner) == \A p \in ServicePorts : Stored(p, targets[p]) = Kept(owner, p)

PortsOK ==
    call = "ports" =>
       /\ IsService(in.service)
       /\ IsRefresh(out)
       /\ ServiceOK(out.service, in.service) /\ OthersKept(out.api, in.api)
       /\ out.outcome \in {"patch", "api"} => TargetsKept(out.targets, in.service)
       /\ out.outcome \in {"api", "ok"} => AllKept(out.service, in.service, ServicePorts)
       /\ out.outcome = "ok" => AllKept(out.api, in.service, APIPorts)

\* A target is a name, which has no number, or a number.
LEMMA TargetFields ==
  ASSUME NEW t \in Target
  PROVE  /\ t.type \in {"name", "number"}
         /\ t.type = "name" <=> t.number = 0
  BY DEF Target

\* What is read is what is kept.
LEMMA ReadIsKept ==
  ASSUME NEW owner, IsService(owner), NEW service, ServiceOK(service, owner)
  PROVE  TargetsKept(targetPorts(service), owner)
<1> SUFFICES ASSUME NEW p \in ServicePorts
             PROVE  Stored(p, targetPorts(service)[p]) = Kept(owner, p)
  BY DEF TargetsKept
<1>1. p # 0 /\ p \in Nat
  BY DEF ServicePorts
<1>2. CASE p \notin DOMAIN service
  <2>1. p \notin DOMAIN owner
    BY <1>2 DEF ServiceOK
  <2> QED BY <1>1, <1>2, <2>1 DEF targetPorts, Stored, Kept
<1>3. CASE p \in DOMAIN service
  <2>1. targetPorts(service)[p] = IntVal(service[p])
    BY <1>3 DEF targetPorts
  <2>2. p \in DOMAIN owner => /\ owner[p].type \in {"name", "number"}
                              /\ owner[p].type = "name" <=> owner[p].number = 0
    BY TargetFields DEF IsService
  <2>3. CASE p \in DOMAIN owner /\ service[p] = owner[p]
    BY <1>1, <2>1, <2>2, <2>3 DEF IntVal, Stored, Kept
  <2>4. CASE service[p] = Number(Kept(owner, p))
    <3>1. IntVal(service[p]) = Kept(owner, p)
      BY <2>4 DEF IntVal, Number
    <3>2. Kept(owner, p) # 0
      BY <1>1, <2>2 DEF Kept
    <3> QED BY <2>1, <3>1, <3>2 DEF Stored
  <2> QED BY <1>3, <2>3, <2>4 DEF ServiceOK
<1> QED BY <1>2, <1>3

\* What is sent to portworx-service.
LEMMA MergeIsKept ==
  ASSUME NEW owner, NEW targets, TargetsKept(targets, owner),
         NEW service, ServiceOK(service, owner)
  PROVE  /\ ServiceOK(Merge(service, ServicePorts, targets), owner)
         /\ AllKept(Merge(service, ServicePorts, targets), owner, ServicePorts)
  BY DEF TargetsKept, ServiceOK, AllKept, Merge

\* What is sent to portworx-api.
LEMMA MergeAPI ==
  ASSUME NEW owner, NEW targets, TargetsKept(targets, owner),
         NEW api, NEW apiOwner, OthersKept(api, apiOwner)
  PROVE  /\ OthersKept(Merge(api, APIPorts, targets), apiOwner)
         /\ AllKept(Merge(api, APIPorts, targets), owner, APIPorts)
<1>1. APIPorts \subseteq ServicePorts
  BY DEF APIPorts, ServicePorts
<1> QED BY <1>1 DEF TargetsKept, OthersKept, AllKept, Merge

LEMMA InitPorts == Init => PortsOK
<1> SUFFICES ASSUME Init, call = "ports" PROVE PortsOK
  BY DEF PortsOK
<1>1. in \in [service : Services, api : APIServices]
  BY DEF Init, Inputs
<1>2. IsService(in.service)
  BY <1>1, ConfigAssumption
<1>3. out = NoRefresh(in)
  BY DEF Init
<1>4. IsRefresh(out) /\ out.service = in.service /\ out.api = in.api /\ out.outcome = "open"
  BY <1>3 DEF NoRefresh, IsRefresh
<1> QED BY <1>2, <1>4 DEF PortsOK, ServiceOK, OthersKept

LEMMA PortsNext == PortsOK /\ [Next]_vars => PortsOK'
<1> SUFFICES ASSUME PortsOK, [Next]_vars, call' = "ports" PROVE PortsOK'
  BY DEF PortsOK
<1>0. call = "ports" /\ in' = in
  BY SameCall
<1> DEFINE merged == Merge(out.service, ServicePorts, out.targets)
           mergedAPI == Merge(out.api, APIPorts, out.targets)
<1>1. /\ IsService(in.service) /\ IsRefresh(out)
      /\ ServiceOK(out.service, in.service) /\ OthersKept(out.api, in.api)
      /\ out.outcome \in {"patch", "api"} =>
            /\ TargetsKept(out.targets, in.service)
            /\ ServiceOK(merged, in.service) /\ AllKept(merged, in.service, ServicePorts)
            /\ OthersKept(mergedAPI, in.api) /\ AllKept(mergedAPI, in.service, APIPorts)
      /\ out.outcome \in {"api", "ok"} => AllKept(out.service, in.service, ServicePorts)
      /\ out.outcome = "ok" => AllKept(out.api, in.service, APIPorts)
      /\ TargetsKept(targetPorts(out.service), in.service)
  BY <1>0, ReadIsKept, MergeIsKept, MergeAPI, Zenon DEF PortsOK
<1> HIDE DEF merged, mergedAPI
<1>2. ASSUME NEW o, NEW s, NEW a, NEW t, out' = [out EXCEPT !.outcome = o, !.service = s,
                                                            !.api = a, !.targets = t]
      PROVE  IsRefresh(out') /\ out'.outcome = o /\ out'.service = s /\ out'.api = a /\ out'.targets = t
  BY <1>1, <1>2 DEF IsRefresh
<1>3. ASSUME NEW o, NEW s, NEW a, NEW t,
             out' = [outcome |-> o, service |-> s, api |-> a, targets |-> t],
             ServiceOK(s, in.service), OthersKept(a, in.api),
             o \in {"patch", "api"} => TargetsKept(t, in.service),
             o \in {"api", "ok"} => AllKept(s, in.service, ServicePorts),
             o = "ok" => AllKept(a, in.service, APIPorts)
      PROVE  PortsOK'
  <2>1. IsRefresh(out') /\ out'.outcome = o /\ out'.service = s /\ out'.api = a /\ out'.targets = t
    BY <1>3 DEF IsRefresh
  <2> QED BY <1>0, <1>1, <1>3, <2>1 DEF PortsOK
<1>4. CASE UNCHANGED vars
  BY <1>4 DEF vars, PortsOK
<1>5. CASE GetService
  <2>1. /\ out.outcome = "open"
        /\ out' = [outcome |-> "patch", service |-> out.service, api |-> out.api,
                   targets |-> targetPorts(out.service)]
    BY <1>1, <1>5 DEF GetService, IsRefresh
  <2> QED BY <1>1, <1>3, <2>1
<1>6. CASE PatchService
  <2>1. /\ out.outcome = "patch"
        /\ out' = [outcome |-> "api", service |-> merged, api |-> out.api, targets |-> out.targets]
    BY <1>1, <1>6 DEF PatchService, IsRefresh, merged
  <2> QED BY <1>1, <1>3, <2>1
<1>7. CASE checkAPIService
  <2>1. /\ out.outcome = "api"
        /\ out' = [outcome |-> "ok", service |-> out.service, api |-> mergedAPI,
                   targets |-> out.targets]
    BY <1>1, <1>7 DEF checkAPIService, IsRefresh, mergedAPI
  <2> QED BY <1>1, <1>3, <2>1
<1>8. CASE RefreshFails
  <2>1. PICK s \in {out.service, merged}, a \in {out.api, mergedAPI} :
           /\ s = merged => out.outcome = "patch" \/ s = out.service
           /\ a = mergedAPI => out.outcome = "api" \/ a = out.api
           /\ out' = [outcome |-> "error", service |-> s, api |-> a, targets |-> out.targets]
    BY <1>1, <1>8 DEF RefreshFails, IsRefresh, merged, mergedAPI
  <2> QED BY <1>1, <1>3, <2>1
<1>9. CASE RefreshAgain
  <2>1. out' = [outcome |-> "open", service |-> out.service, api |-> out.api,
                targets |-> out.targets]
    BY <1>1, <1>9 DEF RefreshAgain, IsRefresh
  <2> QED BY <1>1, <1>3, <2>1
<1> QED
  BY <1>0, <1>4, <1>5, <1>6, <1>7, <1>8, <1>9
  DEF Next, ParseConfig, WipeKvdb, RefreshPorts, CheckPods, AskGate

(***************************************************************************)
(* Refreshes keep the target ports, for services with any ports and        *)
(* targets, named ones included, and any number of refreshes that fail,    *)
(* lose their answer or are repeated.                                      *)
(***************************************************************************)
THEOREM PortsAreKept == Spec => []TargetPortsSurvive
<1>1. PortsOK => TargetPortsSurvive
  <2>1. APIPorts \subseteq ServicePorts
    BY DEF APIPorts, ServicePorts
  <2> QED BY <2>1 DEF PortsOK, TargetPortsSurvive, ServiceOK, OthersKept, AllKept
<1> QED
  BY <1>1, InitPorts, PortsNext, PTL DEF Spec

-----------------------------------------------------------------------------
\* A volume that is not ruled out makes the pod one of Portworx, or an error.
LEMMA VolumeDecides ==
  ASSUME NEW volumes \in Seq(UsesPX \cup Unknown \cup NotPX), NEW k \in DOMAIN volumes,
         volumes[k] \notin NotPX
  PROVE  isPodUsingPxVolume(volumes) \in {"yes", "error"}
<1> DEFINE I == {i \in 1 .. Len(volumes) : volumes[i] \notin NotPX}
<1>1. I \in SUBSET Nat /\ k \in I
  OBVIOUS
<1>2. Min(I) \in I
  BY <1>1, LeastPlace
<1>3. SelectInSeq(volumes, LAMBDA v : v \notin NotPX) = Min(I)
  BY <1>1 DEF SelectInSeq
<1>4. Min(I) # 0
  BY <1>2
<1> HIDE DEF I
<1> QED
  BY <1>3, <1>4 DEF isPodUsingPxVolume

(***************************************************************************)
(* The check for unmanaged pods misses none, for any number of pods and    *)
(* volumes: a "no" rules out every pod without a controller that uses a    *)
(* Portworx volume or waits for one.                                       *)
(***************************************************************************)
THEOREM UnmanagedPodsAreFound == Spec => []NoUnmanagedPodMissed
<1>1. ResultOK => NoUnmanagedPodMissed
  <2> SUFFICES ASSUME ResultOK, Returned("pods"), out.outcome = "no",
                      NEW i \in DOMAIN in, NEW k \in DOMAIN in[i].volumes,
                      in[i].volumes[k] \in UsesPX \cup {"unboundPX"}
               PROVE  in[i].managed
    BY DEF NoUnmanagedPodMissed
  <2>1. in \in Seq(Pod) /\ IsAnyPXAppPodUnmanaged(in) = "no"
    BY ConfigAssumption DEF ResultOK, Returned, Open
  <2>2. in[i] \in Pod
    BY <2>1
  <2>3. isPodUsingPxVolume(in[i].volumes) \in {"yes", "error"}
    BY <2>2, VolumeDecides DEF Pod, UsesPX, Unknown, NotPX
  <2> DEFINE says(answer) == {m \in DOMAIN in : isPodUsingPxVolume(in[m].volumes) = answer}
  <2>4. says("error") = {} /\ \A m \in says("yes") : in[m].managed
    BY <2>1 DEF IsAnyPXAppPodUnmanaged, getPodsUsingPX
  <2> QED BY <2>3, <2>4
<1> QED
  BY <1>1, InitResult, ResultNext, PTL DEF Spec

-----------------------------------------------------------------------------
\* Sequences of one length with the same elements are equal.
LEMMA SameTexts ==
  ASSUME NEW s \in Seq(Nat), NEW t \in Seq(Nat), Len(s) = Len(t)
  PROVE  s = t <=> \A i \in 1 .. Len(t) : s[i] = t[i]
OBVIOUS

\* What the comparison of texts says of the numbers, for two numbers ...
LEMMA TwoNumbers ==
  ASSUME NEW v \in Seq(Nat), Len(v) >= 3, NEW n \in 1 .. 9
  PROVE  /\ HasPrefix(v, <<1, n>>) <=> v[1] = 1 /\ (v[2] = n \/ v[2] \div 10 = n)
         /\ Is(v, <<1, n>>) <=> v[1] = 1 /\ v[2] = n
<1> DEFINE prefix == <<1, n>>
<1>1. prefix \in Seq(Nat) /\ Len(prefix) = 2 /\ prefix[1] = 1 /\ prefix[2] = n
  OBVIOUS
<1>4. HasPrefix(v, prefix) <=> v[1] = 1 /\ (v[2] = n \/ v[2] \div 10 = n)
  <2>1. HasPrefix(v, prefix) <=> /\ \A i \in 1 .. 2 - 1 : v[i] = prefix[i]
                                 /\ v[2] = prefix[2] \/ v[2] \div 10 = prefix[2]
    BY <1>1, Zenon DEF HasPrefix
  <2>2. 1 .. 2 - 1 = {1}
    OBVIOUS
  <2> HIDE DEF prefix
  <2> QED BY <1>1, <2>1, <2>2, Zenon
<1> DEFINE sub == SubSeq(v, 1, 2)
<1>5. sub \in Seq(Nat) /\ Len(sub) = 2 /\ sub[1] = v[1] /\ sub[2] = v[2]
  OBVIOUS
<1>6. Is(v, prefix) <=> sub = prefix
  BY <1>1, Zenon DEF Is
<1>7. sub = prefix <=> \A i \in 1 .. 2 : sub[i] = prefix[i]
  <2> HIDE DEF sub, prefix
  <2>1. sub \in Seq(Nat) /\ prefix \in Seq(Nat) /\ Len(sub) = Len(prefix)
    BY <1>1, <1>5
  <2>2. sub = prefix <=> \A i \in 1 .. Len(prefix) : sub[i] = prefix[i]
    BY ONLY <2>1, SameTexts, Zenon
  <2> QED BY <1>1, <2>2, Zenon
<1>8. 1 .. 2 = {1, 2}
  OBVIOUS
<1>9. sub = prefix <=> v[1] = 1 /\ v[2] = n
  <2> HIDE DEF sub, prefix
  <2> QED BY <1>1, <1>5, <1>7, <1>8
<1> QED BY <1>4, <1>6, <1>9

\* ... and for three.
LEMMA ThreeNumbers ==
  ASSUME NEW v \in Seq(Nat), Len(v) >= 3, NEW n \in 1 .. 9
  PROVE  /\ HasPrefix(v, <<1, 3, n>>) <=>
               v[1] = 1 /\ v[2] = 3 /\ (v[3] = n \/ v[3] \div 10 = n)
         /\ Is(v, <<1, 3, n>>) <=> v[1] = 1 /\ v[2] = 3 /\ v[3] = n
<1> DEFINE prefix == <<1, 3, n>>
<1>1. /\ prefix \in Seq(Nat) /\ Len(prefix) = 3
      /\ prefix[1] = 1 /\ prefix[2] = 3 /\ prefix[3] = n
  OBVIOUS
<1>4. HasPrefix(v, prefix) <=> v[1] = 1 /\ v[2] = 3 /\ (v[3] = n \/ v[3] \div 10 = n)
  <2>1. HasPrefix(v, prefix) <=> /\ \A i \in 1 .. 3 - 1 : v[i] = prefix[i]
                                 /\ v[3] = prefix[3] \/ v[3] \div 10 = prefix[3]
    BY <1>1, Zenon DEF HasPrefix
  <2>2. 1 .. 3 - 1 = {1, 2}
    OBVIOUS
  <2> HIDE DEF prefix
  <2> QED BY <1>1, <2>1, <2>2, Zenon
<1> DEFINE sub == SubSeq(v, 1, 3)
<1>5. sub \in Seq(Nat) /\ Len(sub) = 3 /\ sub[1] = v[1] /\ sub[2] = v[2] /\ sub[3] = v[3]
  OBVIOUS
<1>6. Is(v, prefix) <=> sub = prefix
  BY <1>1, Zenon DEF Is
<1>7. sub = prefix <=> \A i \in 1 .. 3 : sub[i] = prefix[i]
  <2> HIDE DEF sub, prefix
  <2>1. sub \in Seq(Nat) /\ prefix \in Seq(Nat) /\ Len(sub) = Len(prefix)
    BY <1>1, <1>5
  <2>2. sub = prefix <=> \A i \in 1 .. Len(prefix) : sub[i] = prefix[i]
    BY ONLY <2>1, SameTexts, Zenon
  <2> QED BY <1>1, <2>2, Zenon
<1>8. 1 .. 3 = {1, 2, 3}
  OBVIOUS
<1>9. sub = prefix <=> v[1] = 1 /\ v[2] = 3 /\ v[3] = n
  <2> HIDE DEF sub, prefix
  <2> QED BY <1>1, <1>5, <1>7, <1>8
<1> QED BY <1>4, <1>6, <1>9

\* A text over some numbers is one over more numbers.
LEMMA WiderTexts ==
  ASSUME NEW S, NEW T, S \subseteq T, NEW s \in Seq(S)
  PROVE  s \in Seq(T)
OBVIOUS

\* The gate on a labelled first node and a tag that can be parsed.
LEMMA GateIsNeedsDrain ==
  ASSUME NEW v \in Label, NEW t \in Seq(Digits), Len(t) >= 3,
         NEW labels, labels # <<>>, labels[1] = v
  PROVE  /\ NeedsDrain(v, t) => isUpgradeAppDrainRequired(labels, t) = "yes"
         /\ isUpgradeAppDrainRequired(labels, t) = "yes" =>
               \/ NeedsDrain(v, t)
               \/ Begins(v[2], {2}) \/ Begins(t[2], {3, 4}) \/ Begins(t[3], {3, 4})
<1> DEFINE new == SubSeq(t, 1, 3)
<1>1. v \in Seq(Nat) /\ Len(v) >= 3
  <2>1. PICK x \in Digits, y \in Digits, z \in Digits : v = <<x, y, z>>
    BY DEF Label
  <2>2. x \in Nat /\ y \in Nat /\ z \in Nat
    BY DEF Digits
  <2> QED BY <2>1, <2>2
<1>2. /\ new \in Seq(Digits) /\ Len(new) = 3
      /\ new[1] = t[1] /\ new[2] = t[2] /\ new[3] = t[3]
  OBVIOUS
<1>3. t \in Seq(Nat) /\ new \in Seq(Nat)
  <2>1. Digits \subseteq Nat
    BY DEF Digits
  <2> HIDE DEF new
  <2> QED BY <1>2, <2>1, WiderTexts
<1>4. 2 \in 1 .. 9 /\ 3 \in 1 .. 9 /\ 4 \in 1 .. 9 /\ Len(new) >= 3
  BY <1>2
<1>5. /\ HasPrefix(v, <<1, 2>>) <=> v[1] = 1 /\ (v[2] = 2 \/ v[2] \div 10 = 2)
      /\ Is(v, <<1, 2>>) <=> v[1] = 1 /\ v[2] = 2
      /\ HasPrefix(new, <<1, 3>>) <=> t[1] = 1 /\ (t[2] = 3 \/ t[2] \div 10 = 3)
      /\ Is(t, <<1, 3>>) <=> t[1] = 1 /\ t[2] = 3
      /\ HasPrefix(new, <<1, 4>>) <=> t[1] = 1 /\ (t[2] = 4 \/ t[2] \div 10 = 4)
      /\ Is(t, <<1, 4>>) <=> t[1] = 1 /\ t[2] = 4
      /\ HasPrefix(new, <<1, 3, 3>>) <=> t[1] = 1 /\ t[2] = 3 /\ (t[3] = 3 \/ t[3] \div 10 = 3)
      /\ Is(t, <<1, 3, 3>>) <=> t[1] = 1 /\ t[2] = 3 /\ t[3] = 3
      /\ HasPrefix(new, <<1, 3, 4>>) <=> t[1] = 1 /\ t[2] = 3 /\ (t[3] = 4 \/ t[3] \div 10 = 4)
      /\ Is(t, <<1, 3, 4>>) <=> t[1] = 1 /\ t[2] = 3 /\ t[3] = 4
  <2> HIDE DEF new
  <2>1. /\ HasPrefix(v, <<1, 2>>) <=> v[1] = 1 /\ (v[2] = 2 \/ v[2] \div 10 = 2)
        /\ Is(v, <<1, 2>>) <=> v[1] = 1 /\ v[2] = 2
    BY <1>1, <1>4, TwoNumbers, Zenon
  <2>2. \A n \in 1 .. 9 :
           /\ HasPrefix(new, <<1, n>>) <=> new[1] = 1 /\ (new[2] = n \/ new[2] \div 10 = n)
           /\ Is(t, <<1, n>>) <=> t[1] = 1 /\ t[2] = n
    BY <1>3, <1>4, TwoNumbers, Zenon
  <2>3. \A n \in 1 .. 9 :
           /\ HasPrefix(new, <<1, 3, n>>) <=>
                 new[1] = 1 /\ new[2] = 3 /\ (new[3] = n \/ new[3] \div 10 = n)
           /\ Is(t, <<1, 3, n>>) <=> t[1] = 1 /\ t[2] = 3 /\ t[3] = n
    BY <1>3, <1>4, ThreeNumbers, Zenon
  <2>4. \A n \in {3, 4} :
           /\ HasPrefix(new, <<1, n>>) <=> t[1] = 1 /\ (t[2] = n \/ t[2] \div 10 = n)
           /\ HasPrefix(new, <<1, 3, n>>) <=>
                 t[1] = 1 /\ t[2] = 3 /\ (t[3] = n \/ t[3] \div 10 = n)
    BY <1>2, <1>4, <2>2, <2>3, Zenon
  <2> QED BY <1>4, <2>1, <2>2, <2>3, <2>4, Zenon
<1>6. parsePXVersion(t) = new /\ new # Unparsable /\ v # NoLabel
  BY <1>2, ConfigAssumption DEF parsePXVersion
<1>7. isAnyNodeRunningVersionWithPrefix(labels, Dublin)
      = IF HasPrefix(v, <<1, 2>>) THEN "yes" ELSE "no"
  BY <1>6, Zenon DEF isAnyNodeRunningVersionWithPrefix, Dublin
<1>8. "yes" # "no" /\ "yes" # "error" /\ "no" # "error"
  OBVIOUS
<1> HIDE DEF new
<1>9. isUpgradeAppDrainRequired(labels, t) = "yes" <=>
         \/ HasPrefix(new, <<1, 3, 3>>) \/ HasPrefix(new, <<1, 3, 4>>)
         \/ HasPrefix(v, <<1, 2>>) /\ (HasPrefix(new, <<1, 3>>) \/ HasPrefix(new, <<1, 4>>))
  BY <1>6, <1>7, <1>8, Zenon DEF isUpgradeAppDrainRequired
<1> QED
  BY <1>5, <1>9, Zenon DEF NeedsDrain, Dublin, Begins

(***************************************************************************)
(* On a cluster whose nodes all run one labelled version the gate asks for *)
(* every drain that its comment asks for, and for others only because of a *)
(* number of two digits, for any number of nodes and any versions.         *)
(***************************************************************************)
THEOREM GateIsWhatItSays == Spec => []GateFollowsItsComment
<1>1. ResultOK => GateFollowsItsComment
  <2> DEFINE Gate(v, outcome) ==
         /\ NeedsDrain(v, in.tag) => outcome = "yes"
         /\ outcome = "yes" =>
               \/ NeedsDrain(v, in.tag)
               \/ Begins(v[2], {2}) \/ Begins(in.tag[2], {3, 4}) \/ Begins(in.tag[3], {3, 4})
  <2> SUFFICES ASSUME ResultOK, Returned("gate"), in.labels # <<>>, Len(in.tag) >= 3,
                      NEW v \in ToSet(in.labels), v # NoLabel, ToSet(in.labels) = {v}
               PROVE  Gate(v, out.outcome)
    BY Zenon DEF GateFollowsItsComment
  <2>1. /\ \E l \in LabelLists, t \in Tags : in = [labels |-> l, tag |-> t]
        /\ out = [outcome |-> isUpgradeAppDrainRequired(in.labels, in.tag)]
    BY DEF ResultOK, Returned, Open
  <2>2. in.labels \in LabelLists /\ in.tag \in Tags
    BY <2>1
  <2>3. in.labels \in Seq(Label \cup {NoLabel}) /\ in.tag \in Seq(Digits)
    BY <2>2, ConfigAssumption, Zenon
  <2>4. 1 \in DOMAIN in.labels
    BY <2>3
  <2>5. in.labels[1] = v
    BY <2>4 DEF ToSet
  <2>6. v \in Label
    BY <2>3, <2>4, <2>5
  <2>7. Gate(v, isUpgradeAppDrainRequired(in.labels, in.tag))
    BY <2>3, <2>5, <2>6, GateIsNeedsDrain, Zenon
  <2>8. out.outcome = isUpgradeAppDrainRequired(in.labels, in.tag)
    BY <2>1
  <2> QED BY <2>7, <2>8, Zenon
<1> QED
  BY <1>1, InitResult, ResultNext, PTL DEF Spec

-----------------------------------------------------------------------------
(***************************************************************************)
(* The loop over the arguments.  A configuration has its fields, and after *)
(* n arguments they are what the first n arguments say.                    *)
(***************************************************************************)
IsConfig(c) ==
    /\ c = [outcome |-> c.outcome, internal |-> c.internal, cluster |-> c.cluster,
            endpoints |-> c.endpoints, user |-> c.user, password |-> c.password,
            files |-> c.files]
    /\ c.files = [f \in Files |-> c.files[f]]
    /\ c.internal \in BOOLEAN

CredentialsAreRead(c, args, n) ==
    /\ IsRead(c.user, [i \in DOMAIN args |-> Parts[args[i]][1]], args, n, Credentials, "")
    /\ IsRead(c.password, [i \in DOMAIN args |-> Parts[args[i]][2]], args, n, Credentials, "")
    /\ \A i \in 1 .. n : args[i] \in Credentials => i + 1 \in DOMAIN args

ConfigOK ==
    call = "config" =>
       /\ in.args \in Seq(STRING) /\ in.env \in Seq(Entry)
       /\ at \in 0 .. Len(in.args)
       /\ IsConfig(out)
       /\ out.outcome \in {"open", "ok", "internal"} => OptionsAreRead(out, in.args, at)
       /\ out.outcome = "open" => CredentialsAreRead(out, in.args, at)
       /\ out.outcome \in {"ok", "internal"} =>
             /\ at = Len(in.args)
             /\ ~out.internal => out.endpoints # <<>> /\ out.cluster # ""
             /\ ReferencesAreResolved

\* The last flag of n + 1 arguments.
LEMMA NextFlag ==
  ASSUME NEW args, NEW n \in Nat, NEW F
  PROVE  LastFlag(args, n + 1, F) = IF args[n + 1] \in F THEN {n + 1} ELSE LastFlag(args, n, F)
<1>1. 1 .. n + 1 = (1 .. n) \cup {n + 1}
  OBVIOUS
<1>2. CASE args[n + 1] \in F
  BY <1>1, <1>2 DEF LastFlag
<1>3. CASE args[n + 1] \notin F
  BY <1>1, <1>3 DEF LastFlag
<1> QED BY <1>2, <1>3

LEMMA FirstFlag == \A args, F : LastFlag(args, 0, F) = {}
  BY DEF LastFlag

\* What is read after one more argument.
LEMMA NextRead ==
  ASSUME NEW args, NEW n \in Nat, NEW F, NEW default, NEW values, NEW old, NEW new,
         IsRead(old, values, args, n, F, default),
         new = IF args[n + 1] \in F THEN values[n + 2] ELSE old
  PROVE  IsRead(new, values, args, n + 1, F, default)
<1>1. CASE args[n + 1] \in F
  <2>1. LastFlag(args, n + 1, F) = {n + 1}
    BY <1>1, NextFlag
  <2>2. (n + 1) + 1 = n + 2
    OBVIOUS
  <2> QED BY <1>1, <2>1, <2>2 DEF IsRead
<1>2. CASE args[n + 1] \notin F
  <2>1. LastFlag(args, n + 1, F) = LastFlag(args, n, F)
    BY <1>2, NextFlag
  <2> QED BY <1>2, <2>1 DEF IsRead
<1> QED BY <1>1, <1>2

\* What one argument does to the configuration.
LEMMA ReadFields ==
  ASSUME NEW args, NEW c, IsConfig(c), c.outcome = "open", NEW n \in Nat, n < Len(args),
         Len(args) \in Nat,
         NEW d, d = ReadArg(args, c, n + 1), NEW a, a = args[n + 1], NEW v, v = args[n + 2]
  PROVE  /\ IsConfig(d) /\ d.outcome \in {"open", "error", "panic"}
         /\ d.outcome = "open" =>
               /\ a \in ValueFlags => n + 1 < Len(args)
               /\ d.internal = (c.internal \/ a = "-b")
               /\ d.cluster = IF a = "-c" THEN v ELSE c.cluster
               /\ d.endpoints = IF a = "-k" THEN splitCSV(v) ELSE c.endpoints
               /\ d.user = IF a \in Credentials THEN Parts[v][1] ELSE c.user
               /\ d.password = IF a \in Credentials THEN Parts[v][2] ELSE c.password
               /\ \A f \in Files : d.files[f] = IF a = f THEN v ELSE c.files[f]
               /\ a = "-k" => splitCSV(v) # Malformed
               /\ a \in Credentials => ~(Len(Parts[v]) < 2)
<1>0. (n + 1) + 1 = n + 2
  OBVIOUS
<1> USE DEF IsConfig, Credentials, Files, ValueFlags
<1>1. CASE a = "-b"
  <2>1. d = [c EXCEPT !.internal = TRUE]
    BY <1>1 DEF ReadArg
  <2> QED BY <1>1, <2>1
<1>2. CASE a # "-b" /\ a \notin ValueFlags
  <2>1. d = c
    BY <1>2 DEF ReadArg
  <2> QED BY <1>2, <2>1
<1>3. CASE a \in ValueFlags /\ n + 1 = Len(args)
  <2>1. d = [c EXCEPT !.outcome = "panic"]
    BY <1>3 DEF ReadArg
  <2> QED BY <1>3, <2>1
<1>4. CASE a \in ValueFlags /\ n + 1 # Len(args)
  <2>0. d = ReadValue(c, a, v) /\ n + 1 < Len(args)
    BY <1>0, <1>4 DEF ReadArg
  <2>1. CASE a = "-c"
    <3>1. d = [c EXCEPT !.cluster = v]
      BY <2>0, <2>1 DEF ReadValue
    <3> QED BY <2>0, <2>1, <3>1
  <2>2. CASE a = "-k" /\ splitCSV(v) = Malformed
    <3>1. d = [c EXCEPT !.outcome = "error"]
      BY <2>0, <2>2 DEF ReadValue
    <3> QED BY <2>0, <2>2, <3>1
  <2>3. CASE a = "-k" /\ splitCSV(v) # Malformed
    <3>1. d = [c EXCEPT !.endpoints = splitCSV(v)]
      BY <2>0, <2>3 DEF ReadValue
    <3> QED BY <2>0, <2>3, <3>1
  <2>4. CASE a \in Credentials /\ Len(Parts[v]) < 2
    <3>1. d = [c EXCEPT !.outcome = "error"]
      BY <2>0, <2>4 DEF ReadValue
    <3> QED BY <2>0, <2>4, <3>1
  <2>5. CASE a \in Credentials /\ ~(Len(Parts[v]) < 2)
    <3>1. d = [c EXCEPT !.user = Parts[v][1], !.password = Parts[v][2]]
      BY <2>0, <2>5 DEF ReadValue
    <3> QED BY <2>0, <2>5, <3>1
  <2>6. CASE a \in Files
    <3>1. d = [c EXCEPT !.files = [@ EXCEPT ![a] = v]]
      BY <2>0, <2>6 DEF ReadValue
    <3> QED BY <2>0, <2>6, <3>1
  <2> QED BY <1>4, <2>1, <2>2, <2>3, <2>4, <2>5, <2>6
<1> QED BY <1>1, <1>2, <1>3, <1>4

\* The loop invariant is kept by an iteration.
LEMMA ArgumentRead ==
  ASSUME NEW args \in Seq(STRING), NEW c, IsConfig(c), c.outcome = "open",
         NEW n \in Nat, n < Len(args), NEW d, d = ReadArg(args, c, n + 1), d.outcome = "open",
         OptionsAreRead(c, args, n), CredentialsAreRead(c, args, n)
  PROVE  OptionsAreRead(d, args, n + 1) /\ CredentialsAreRead(d, args, n + 1)
<1> DEFINE a == args[n + 1]
           v == args[n + 2]
           ends == [i \in DOMAIN args |-> splitCSV(args[i])]
           users == [i \in DOMAIN args |-> Parts[args[i]][1]]
           passwords == [i \in DOMAIN args |-> Parts[args[i]][2]]
<1>1. /\ a \in ValueFlags => n + 1 < Len(args)
      /\ d.internal = (c.internal \/ a = "-b")
      /\ d.cluster = IF a = "-c" THEN v ELSE c.cluster
      /\ d.endpoints = IF a = "-k" THEN splitCSV(v) ELSE c.endpoints
      /\ d.user = IF a \in Credentials THEN Parts[v][1] ELSE c.user
      /\ d.password = IF a \in Credentials THEN Parts[v][2] ELSE c.password
      /\ \A f \in Files : d.files[f] = IF a = f THEN v ELSE c.files[f]
      /\ a = "-k" => splitCSV(v) # Malformed
      /\ a \in Credentials => ~(Len(Parts[v]) < 2)
  <2>1. Len(args) \in Nat
    OBVIOUS
  <2> HIDE DEF a, v
  <2> QED BY <2>1, ReadFields DEF a, v
<1>2. a \in ValueFlags => n + 2 \in DOMAIN args
  BY <1>1
<1>3. /\ a = "-k" => ends[n + 2] = splitCSV(v)
      /\ a \in Credentials => users[n + 2] = Parts[v][1] /\ passwords[n + 2] = Parts[v][2]
  BY <1>2 DEF ValueFlags, Credentials
<1>4. IsRead(d.cluster, args, args, n + 1, {"-c"}, "")
  <2>1. IsRead(c.cluster, args, args, n, {"-c"}, "")
    BY DEF OptionsAreRead
  <2>2. d.cluster = IF args[n + 1] \in {"-c"} THEN args[n + 2] ELSE c.cluster
    BY <1>1
  <2> QED BY <2>1, <2>2, NextRead, Zenon
<1>5. IsRead(d.endpoints, ends, args, n + 1, {"-k"}, <<>>)
  <2>1. IsRead(c.endpoints, ends, args, n, {"-k"}, <<>>)
    BY DEF OptionsAreRead
  <2>2. d.endpoints = IF args[n + 1] \in {"-k"} THEN ends[n + 2] ELSE c.endpoints
    BY <1>1, <1>3
  <2> HIDE DEF ends
  <2> QED BY <2>1, <2>2, NextRead, Zenon
<1>6. ASSUME NEW f \in Files PROVE IsRead(d.files[f], args, args, n + 1, {f}, "")
  <2>1. IsRead(c.files[f], args, args, n, {f}, "")
    BY DEF OptionsAreRead
  <2>2. d.files[f] = IF args[n + 1] \in {f} THEN args[n + 2] ELSE c.files[f]
    BY <1>1
  <2> QED BY <2>1, <2>2, NextRead, Zenon
<1>7. IsRead(d.user, users, args, n + 1, Credentials, "")
  <2>1. IsRead(c.user, users, args, n, Credentials, "")
    BY DEF CredentialsAreRead
  <2>2. d.user = IF args[n + 1] \in Credentials THEN users[n + 2] ELSE c.user
    BY <1>1, <1>3
  <2> HIDE DEF users
  <2> QED BY <2>1, <2>2, NextRead, Zenon
<1>8. IsRead(d.password, passwords, args, n + 1, Credentials, "")
  <2>1. IsRead(c.password, passwords, args, n, Credentials, "")
    BY DEF CredentialsAreRead
  <2>2. d.password = IF args[n + 1] \in Credentials THEN passwords[n + 2] ELSE c.password
    BY <1>1, <1>3
  <2> HIDE DEF passwords
  <2> QED BY <2>1, <2>2, NextRead, Zenon
<1>9. 1 .. n + 1 = (1 .. n) \cup {n + 1} /\ (n + 1) + 1 = n + 2
  OBVIOUS
<1>10. d.internal <=> \E i \in 1 .. n + 1 : args[i] = "-b"
  BY <1>1, <1>9 DEF OptionsAreRead, IsConfig
<1>11. \A i \in 1 .. n + 1 : /\ args[i] = "-k" => splitCSV(args[i + 1]) # Malformed
                             /\ args[i] \in Credentials => ~(Len(Parts[args[i + 1]]) < 2)
  BY <1>1, <1>9 DEF OptionsAreRead
<1>12. \A i \in 1 .. n + 1 : args[i] \in Credentials => i + 1 \in DOMAIN args
  BY <1>2, <1>9 DEF CredentialsAreRead, ValueFlags
<1> QED
  BY <1>4, <1>5, <1>6, <1>7, <1>8, <1>10, <1>11, <1>12, Zenon
  DEF OptionsAreRead, CredentialsAreRead

\* A reference that the environment says something of is replaced by its value.
LEMMA Extracted ==
  ASSUME NEW text \in DOMAIN Var, NEW env \in Seq(Entry), Decisive(text, env) # {},
         NEW r, r = extractEnv(text, env), r # Malformed
  PROVE  ResolvedBy(text, env, r)
<1> DEFINE I == {i \in 1 .. Len(env) :
                    env[i].name = Var[text] /\ (env[i].value # "" \/ env[i].from # "none")}
           first == SelectInSeq(env, LAMBDA e : e.name = Var[text] /\ (e.value # "" \/ e.from # "none"))
<1>1. I = Decisive(text, env) /\ I \in SUBSET Nat
  <2>1. DOMAIN env = 1 .. Len(env) /\ 1 .. Len(env) \subseteq Nat
    OBVIOUS
  <2> QED BY <2>1, Zenon DEF Decisive
<1>2. Min(I) \in I
  BY <1>1, LeastPlace
<1>3. first = Min(I)
  BY <1>1 DEF SelectInSeq
<1>4. first # 0 /\ first \in Decisive(text, env)
  <2>0. 0 \notin 1 .. Len(env)
    OBVIOUS
  <2>1. 0 \notin I
    BY <2>0, Zenon
  <2> HIDE DEF I, first
  <2> QED BY <1>1, <1>2, <1>3, <2>1
<1>5. r = IF first = 0 THEN text
          ELSE IF env[first].value # "" THEN env[first].value
          ELSE IF env[first].from = "secret" THEN Secrets[env[first].name]
          ELSE Malformed
  BY DEF extractEnv
<1> HIDE DEF first
<1> QED BY <1>4, <1>5 DEF ResolvedBy

\* What follows the loop keeps what was read, and looks both credentials up.
ConcludesAs(c, env, d) ==
    /\ IsConfig(d) /\ d.outcome \in {"ok", "internal", "error"}
    /\ d.outcome \in {"ok", "internal"} =>
          /\ d.internal = c.internal /\ d.cluster = c.cluster
          /\ d.endpoints = c.endpoints /\ d.files = c.files
          /\ ~d.internal => d.endpoints # <<>> /\ d.cluster # ""
          /\ c.user \in DOMAIN Var =>
                /\ d.user = extractEnv(c.user, env) /\ d.user # Malformed
                /\ d.password = extractEnv(c.password, env) /\ d.password # Malformed

LEMMA Concluded ==
  ASSUME NEW c, IsConfig(c), c.outcome = "open", NEW env
  PROVE  ConcludesAs(c, env, Conclude(c, env))
<1> DEFINE d == Conclude(c, env)
<1> DEFINE r == Resolve(c, env)
<1>1. /\ IsConfig(r) /\ r.outcome \in {"open", "error"}
      /\ r.outcome = "open" =>
            /\ r.internal = c.internal /\ r.cluster = c.cluster
            /\ r.endpoints = c.endpoints /\ r.files = c.files
            /\ c.user \in DOMAIN Var =>
                  /\ r.user = extractEnv(c.user, env) /\ r.user # Malformed
                  /\ r.password = extractEnv(c.password, env) /\ r.password # Malformed
  <2>1. CASE c.user \notin DOMAIN Var
    BY <2>1 DEF Resolve
  <2>2. CASE c.user \in DOMAIN Var
             /\ (extractEnv(c.user, env) = Malformed \/ extractEnv(c.password, env) = Malformed)
    <3>1. r = [c EXCEPT !.outcome = "error"]
      BY <2>2 DEF Resolve
    <3> QED BY <3>1 DEF IsConfig
  <2>3. CASE c.user \in DOMAIN Var
             /\ ~(extractEnv(c.user, env) = Malformed \/ extractEnv(c.password, env) = Malformed)
    <3>1. r = [c EXCEPT !.user = extractEnv(c.user, env), !.password = extractEnv(c.password, env)]
      BY <2>3 DEF Resolve
    <3> QED BY <2>3, <3>1 DEF IsConfig
  <2> QED BY <2>1, <2>2, <2>3
<1>2. d = IF r.outcome # "open" THEN r
          ELSE [r EXCEPT !.outcome = IF r.internal THEN "internal"
                                     ELSE IF r.endpoints = <<>> \/ r.cluster = "" THEN "error"
                                     ELSE "ok"]
  BY DEF Conclude
<1>3. ConcludesAs(c, env, d)
  <2> HIDE DEF r, d
  <2> QED BY <1>1, <1>2 DEF IsConfig, ConcludesAs
<1> QED BY <1>3

LEMMA InitConfig == Init => ConfigOK
<1> SUFFICES ASSUME Init, call = "config" PROVE ConfigOK
  BY DEF ConfigOK
<1>1. in \in {[args |-> a, env |-> e] : a \in ArgLists, e \in Envs}
  BY DEF Init, Inputs
<1>2. in.args \in Seq(STRING) /\ in.env \in Seq(Entry)
  BY <1>1, ConfigAssumption
<1>3. at = 0 /\ out = NoConfig
  BY DEF Init
<1>4. IsConfig(out) /\ out.outcome = "open"
  BY <1>3 DEF NoConfig, IsConfig
<1>5. \A value, values, F, default :
         IsRead(value, values, in.args, 0, F, default) <=> value = default
  BY FirstFlag DEF IsRead
<1>6. OptionsAreRead(out, in.args, 0)
  <2>1. 1 .. 0 = {}
    OBVIOUS
  <2>2. /\ out.internal = FALSE /\ out.cluster = "" /\ out.endpoints = <<>>
        /\ \A f \in Files : out.files[f] = ""
    BY <1>3 DEF NoConfig
  <2> QED BY <1>5, <2>1, <2>2, Zenon DEF OptionsAreRead
<1>7. CredentialsAreRead(out, in.args, 0)
  <2>1. 1 .. 0 = {}
    OBVIOUS
  <2>2. out.user = "" /\ out.password = ""
    BY <1>3 DEF NoConfig
  <2> QED BY <1>5, <2>1, <2>2, Zenon DEF CredentialsAreRead
<1> QED BY <1>2, <1>3, <1>4, <1>6, <1>7 DEF ConfigOK

LEMMA ConfigNext == ConfigOK /\ [Next]_vars => ConfigOK'
<1> SUFFICES ASSUME ConfigOK, [Next]_vars, call' = "config" PROVE ConfigOK'
  BY DEF ConfigOK
<1>0. call = "config" /\ in' = in
  BY SameCall
<1>1. CASE UNCHANGED vars
  BY <1>1 DEF vars, ConfigOK, ReferencesAreResolved, Returned
<1>2. CASE parseArgument
  <2>1. /\ out.outcome = "open" /\ at \in Nat /\ at < Len(in.args)
        /\ at' = at + 1 /\ out' = ReadArg(in.args, out, at + 1)
        /\ in.args \in Seq(STRING) /\ Len(in.args) \in Nat /\ IsConfig(out)
        /\ OptionsAreRead(out, in.args, at) /\ CredentialsAreRead(out, in.args, at)
    BY <1>0, <1>2 DEF parseArgument, ConfigOK
  <2>2. IsConfig(out') /\ out'.outcome \in {"open", "error", "panic"}
    BY <2>1, ReadFields, Zenon
  <2>3. out'.outcome = "open" =>
           OptionsAreRead(out', in.args, at + 1) /\ CredentialsAreRead(out', in.args, at + 1)
    BY <2>1, ArgumentRead, Zenon
  <2>4. at + 1 \in 0 .. Len(in.args)
    BY <2>1
  <2> QED BY <1>0, <2>1, <2>2, <2>3, <2>4 DEF ConfigOK
<1>3. CASE parseConfigFromDaemonset
  <2>1. /\ out.outcome = "open" /\ at = Len(in.args) /\ at' = at /\ out' = Conclude(out, in.env)
        /\ in.args \in Seq(STRING) /\ in.env \in Seq(Entry) /\ IsConfig(out)
        /\ OptionsAreRead(out, in.args, at) /\ CredentialsAreRead(out, in.args, at)
    BY <1>0, <1>3 DEF parseConfigFromDaemonset, ConfigOK
  <2>2. ConcludesAs(out, in.env, out')
    <3>1. ConcludesAs(out, in.env, Conclude(out, in.env))
      BY <2>1, Concluded
    <3> QED BY <2>1, <3>1
  <2>3. out'.outcome \in {"ok", "internal"} => OptionsAreRead(out', in.args, at)
    BY <2>1, <2>2, Zenon DEF OptionsAreRead, ConcludesAs
  <2>4. ASSUME out'.outcome \in {"ok", "internal"},
               NEW i \in LastFlag(in.args, at, Credentials),
               \A k \in {1, 2} : /\ Parts[in.args[i + 1]][k] \in DOMAIN Var
                                 /\ Decisive(Parts[in.args[i + 1]][k], in.env) # {}
        PROVE  /\ ResolvedBy(Parts[in.args[i + 1]][1], in.env, out'.user)
               /\ ResolvedBy(Parts[in.args[i + 1]][2], in.env, out'.password)
    <3>1. \A j \in LastFlag(in.args, at, Credentials) : j = i
      BY <2>1 DEF LastFlag
    <3>2. i + 1 \in DOMAIN in.args
      BY <2>1 DEF LastFlag, CredentialsAreRead
    <3>3. /\ out.user = Parts[in.args[i + 1]][1]
          /\ out.password = Parts[in.args[i + 1]][2]
      BY <2>1, <3>1, <3>2 DEF CredentialsAreRead, IsRead
    <3>4. /\ out.user \in DOMAIN Var /\ Decisive(out.user, in.env) # {}
          /\ out.password \in DOMAIN Var /\ Decisive(out.password, in.env) # {}
      BY <2>4, <3>3
    <3>5. ResolvedBy(out.user, in.env, out'.user) /\ ResolvedBy(out.password, in.env, out'.password)
      BY <2>1, <2>2, <2>4, <3>4, Extracted, Zenon DEF ConcludesAs
    <3> QED BY <3>3, <3>5, Zenon
  <2>5. ReferencesAreResolved'
    BY <1>0, <2>1, <2>4 DEF ReferencesAreResolved
  <2> QED BY <1>0, <2>1, <2>2, <2>3, <2>5 DEF ConfigOK, ConcludesAs
<1> QED
  BY <1>0, <1>1, <1>2, <1>3
  DEF Next, ParseConfig, WipeKvdb, RefreshPorts, CheckPods, AskGate

(***************************************************************************)
(* Well formed arguments, however many, are read as Portworx reads them:   *)
(* the last occurrence of every option decides, and a parse that succeeds  *)
(* has what is needed to reach the kvdb.                                   *)
(***************************************************************************)
THEOREM ArgumentsAreRead == Spec => []ArgumentsAreUnderstood
<1>1. ConfigOK => ArgumentsAreUnderstood
  BY DEF ConfigOK, ArgumentsAreUnderstood, Returned
<1> QED
  BY <1>1, InitConfig, ConfigNext, PTL DEF Spec

(***************************************************************************)
(* Credentials that are both references to variables the container defines *)
(* are replaced by the values of the variables, for any environment.       *)
(***************************************************************************)
THEOREM CredentialsAreLookedUp == Spec => []ReferencesAreResolved
<1>1. ConfigOK => ReferencesAreResolved
  BY DEF ConfigOK, ReferencesAreResolved, Returned
<1> QED
  BY <1>1, InitConfig, ConfigNext, PTL DEF Spec

-----------------------------------------------------------------------------
(***************************************************************************)
(* The two loops over the endpoints.  The client has its fields; when the  *)
(* endpoints are well formed, the urls are those of the endpoints that are *)
(* done, the tokens read so far are the beginning of the next one, and the *)
(* endpoints that were asked in vain are down.                             *)
(***************************************************************************)
IsClient(c) ==
    c = [outcome |-> c.outcome, urlPrefix |-> c.urlPrefix, kvdbURL |-> c.kvdbURL,
         urls |-> c.urls, version |-> c.version]

\* The tokens that the scheme takes the place of.
Skipped(parts) == IF Len(parts) = 4 THEN 2 ELSE 1

AllWellFormed ==
    in.endpoints # <<>> /\ \A i \in DOMAIN in.endpoints : WellFormedEndpoint(in.endpoints[i])

\* The tokens of an endpoint, and the schemes.
Text == STRING \cup Schemes

\* The urls of the first n endpoints.
URLsOf(urls, endpoints, n) ==
    /\ urls \in Seq(Seq(Text)) /\ Len(urls) = n
    /\ \A k \in 1 .. n : urls[k] = URLOf(endpoints[k])

\* The url that is being built, after the tokens that are done.
BuildsURL(url, parts, n) ==
    /\ n \in Skipped(parts) .. Len(parts)
    /\ url \in Seq(Text) /\ Len(url) = 1 + n - Skipped(parts)
    /\ \A k \in 1 .. 1 + n - Skipped(parts) : url[k] = URLOf(parts)[k]

Normalising ==
    /\ in.cluster # ""
    /\ at \in 0 .. Len(in.endpoints)
    /\ URLsOf(out.urls, in.endpoints, at)
    /\ token # 0 => at < Len(in.endpoints) /\ BuildsURL(out.kvdbURL, in.endpoints[at + 1], token)

Asking ==
    /\ at \in 0 .. Len(in.endpoints) - 1
    /\ URLsOf(out.urls, in.endpoints, Len(in.endpoints))
    /\ \A k \in 1 .. at : in.answers[k] = "down"

Refused ==
    \/ ~in.created
    \/ in.cluster = "" \/ \A k \in DOMAIN in.answers : in.answers[k] = "down"
    \/ \E k \in DOMAIN in.answers : in.answers[k] = "odd"

KvdbOK ==
    call = "kvdb" =>
       /\ in.endpoints \in Seq(Seq(STRING) \ {<<>>})
       /\ DOMAIN in.answers = DOMAIN in.endpoints /\ in.created \in BOOLEAN
       /\ IsClient(out)
       /\ AllWellFormed =>
             /\ out.outcome \in {"open", "normalise", "ask", "new", "ok", "error"}
             /\ out.outcome = "open" => at = 0 /\ token = 0 /\ out.urls = <<>>
             /\ out.outcome = "normalise" => Normalising
             /\ out.outcome = "ask" => Asking
             /\ out.outcome \in {"new", "ok"} =>
                   URLsOf(out.urls, in.endpoints, Len(in.endpoints))
             /\ out.outcome = "ok" => in.created
             /\ out.outcome = "error" => Refused

LEMMA ThreeTokens ==
  ASSUME NEW S, NEW x \in S, NEW y \in S, NEW z \in S, NEW s, s = <<x, y, z>>
  PROVE  s \in Seq(S) /\ Len(s) = 3 /\ s[1] = x /\ s[2] = y /\ s[3] = z
OBVIOUS

LEMMA Tokens ==
  ASSUME NEW S, NEW parts \in Seq(S)
  PROVE  DOMAIN parts = 1 .. Len(parts) /\ Len(parts) \in Nat /\ \A k \in DOMAIN parts : parts[k] \in S
OBVIOUS

\* The url of a well formed endpoint: its scheme, then the tokens that are not skipped.
LEMMA URLTokens ==
  ASSUME NEW parts \in Seq(STRING), WellFormedEndpoint(parts)
  PROVE  /\ URLOf(parts) \in Seq(Text)
         /\ Len(URLOf(parts)) = 1 + Len(parts) - Skipped(parts)
         /\ \A before : URLOf(parts)[1] = scheme(before, parts)
         /\ Skipped(parts) = IF parts[2] \in Schemes THEN 2 ELSE 1
         /\ Len(parts) > Skipped(parts)
         /\ \A n \in Skipped(parts) + 1 .. Len(parts) :
               /\ URLOf(parts)[1 + n - Skipped(parts)] = parts[n]
               /\ parts[n] # ""
<1> DEFINE u == URLOf(parts)
<1>0. /\ DOMAIN parts = 1 .. Len(parts) /\ \A k \in DOMAIN parts : parts[k] \in STRING
  BY Tokens, Zenon
<1> USE DEF Text
<1>1. CASE Len(parts) = 4
  <2>1. u = <<parts[2], parts[3], parts[4]>> /\ Skipped(parts) = 2
    BY <1>1, Zenon DEF URLOf, Skipped
  <2>2. DOMAIN parts = {1, 2, 3, 4}
    BY <1>0, <1>1
  <2>3. /\ parts[2] \in STRING /\ parts[3] \in STRING /\ parts[4] \in STRING
        /\ parts[3] # "" /\ parts[4] # "" /\ parts[2] \in Schemes
    BY <1>0, <1>1, <2>2, Zenon DEF WellFormedEndpoint
  <2>4. u \in Seq(Text) /\ Len(u) = 3 /\ u[1] = parts[2] /\ u[2] = parts[3] /\ u[3] = parts[4]
    <3>1. parts[2] \in Text /\ parts[3] \in Text /\ parts[4] \in Text
      BY <2>3, Zenon
    <3> HIDE DEF Text
    <3> QED BY <2>1, <3>1, ThreeTokens
  <2>5. \A n \in 3 .. 4 : u[1 + n - 2] = parts[n] /\ parts[n] # ""
    <3>1. 3 .. 4 = {3, 4} /\ 1 + 3 - 2 = 2 /\ 1 + 4 - 2 = 3
      OBVIOUS
    <3> HIDE DEF u
    <3> QED BY <2>3, <2>4, <3>1, Zenon
  <2>6. \A before : scheme(before, parts) = parts[2]
    BY <2>3, Zenon DEF scheme
  <2>7. 3 = 1 + 4 - 2 /\ 4 > 2 /\ 2 + 1 = 3
    OBVIOUS
  <2> HIDE DEF u
  <2> QED BY <1>1, <2>1, <2>3, <2>4, <2>5, <2>6, <2>7, Zenon DEF u
<1>2. CASE Len(parts) = 3
  <2>1. u = <<"http", parts[2], parts[3]>> /\ Skipped(parts) = 1
    <3>1. 3 # 4
      OBVIOUS
    <3> QED BY <1>2, <3>1, Zenon DEF URLOf, Skipped
  <2>2. DOMAIN parts = {1, 2, 3}
    BY <1>0, <1>2
  <2>3. /\ parts[2] \in STRING /\ parts[3] \in STRING
        /\ parts[2] # "" /\ parts[3] # "" /\ parts[2] \notin Schemes
    <3>1. 3 # 4
      OBVIOUS
    <3> QED BY <1>0, <1>2, <2>2, <3>1, Zenon DEF WellFormedEndpoint
  <2>4. u \in Seq(Text) /\ Len(u) = 3 /\ u[1] = "http" /\ u[2] = parts[2] /\ u[3] = parts[3]
    <3>1. "http" \in Text /\ parts[2] \in Text /\ parts[3] \in Text
      BY <2>3, Zenon DEF Schemes
    <3> HIDE DEF Text
    <3> QED BY <2>1, <3>1, ThreeTokens
  <2>5. \A n \in 2 .. 3 : u[1 + n - 1] = parts[n] /\ parts[n] # ""
    <3>1. 2 .. 3 = {2, 3} /\ 1 + 2 - 1 = 2 /\ 1 + 3 - 1 = 3
      OBVIOUS
    <3> HIDE DEF u
    <3> QED BY <2>3, <2>4, <3>1, Zenon
  <2>6. \A before : scheme(before, parts) = "http"
    BY <2>3, Zenon DEF scheme
  <2>7. 3 = 1 + 3 - 1 /\ 3 > 1 /\ 1 + 1 = 2
    OBVIOUS
  <2> HIDE DEF u
  <2> QED BY <1>2, <2>1, <2>3, <2>4, <2>5, <2>6, <2>7, Zenon DEF u
<1>3. Len(parts) \in {3, 4}
  BY DEF WellFormedEndpoint
<1> QED BY <1>1, <1>2, <1>3, Zenon

LEMMA InitKvdb == Init => KvdbOK
<1> SUFFICES ASSUME Init, call = "kvdb" PROVE KvdbOK
  BY DEF KvdbOK
<1>1. in \in UNION {KvdbCalls(l) : l \in EndpointLists}
  BY DEF Init, Inputs
<1>2. PICK l \in EndpointLists : in \in KvdbCalls(l)
  BY <1>1, Zenon
<1>3. /\ in.endpoints \in Seq(Seq(STRING) \ {<<>>}) /\ DOMAIN in.answers = DOMAIN in.endpoints
      /\ in.created \in BOOLEAN
  <2>2. in.endpoints = l /\ in.answers \in [DOMAIN l -> Answers] /\ in.created \in BOOLEAN
    BY <1>2 DEF KvdbCalls
  <2>3. l \in Seq(Seq(STRING) \ {<<>>})
    BY ConfigAssumption, Zenon
  <2> QED BY <2>2, <2>3
<1>4. at = 0 /\ token = 0 /\ out = NoClient
  BY DEF Init
<1> QED BY <1>3, <1>4 DEF KvdbOK, IsClient, NoClient

\* One more url, one more token.
LEMMA AppendURL ==
  ASSUME NEW n \in Nat, NEW urls, NEW endpoints, URLsOf(urls, endpoints, n),
         NEW url, url \in Seq(Text), url = URLOf(endpoints[n + 1])
  PROVE  URLsOf(Append(urls, url), endpoints, n + 1)
<1> DEFINE S == Seq(Text)
<1>1. urls \in Seq(S) /\ url \in S /\ Len(urls) = n /\ \A k \in 1 .. n : urls[k] = URLOf(endpoints[k])
  BY Zenon DEF URLsOf
<1> HIDE DEF S
<1>2. /\ Append(urls, url) \in Seq(S) /\ Len(Append(urls, url)) = n + 1
      /\ \A k \in 1 .. n : Append(urls, url)[k] = urls[k]
      /\ Append(urls, url)[n + 1] = url
  BY <1>1
<1>3. 1 .. n + 1 = (1 .. n) \cup {n + 1}
  OBVIOUS
<1> QED BY <1>1, <1>2, <1>3, Zenon DEF URLsOf, S

LEMMA AppendToken ==
  ASSUME NEW parts \in Seq(STRING), WellFormedEndpoint(parts), NEW n \in Nat, n < Len(parts),
         NEW url, BuildsURL(url, parts, n)
  PROVE  parts[n + 1] # "" /\ BuildsURL(Append(url, parts[n + 1]), parts, n + 1)
<1> DEFINE m == 1 + n - Skipped(parts)
           v == parts[n + 1]
           u == URLOf(parts)
<1>1. /\ n \in Skipped(parts) .. Len(parts) /\ url \in Seq(Text) /\ Len(url) = m
      /\ \A k \in 1 .. m : url[k] = u[k]
  BY Zenon DEF BuildsURL
<1>2. Skipped(parts) \in {1, 2} /\ Len(parts) \in Nat
  BY DEF Skipped
<1>3. m \in Nat /\ n + 1 \in Skipped(parts) + 1 .. Len(parts) /\ 1 + (n + 1) - Skipped(parts) = m + 1
  BY <1>1, <1>2
<1>4. u[m + 1] = v /\ v # ""
  <2>1. u[1 + (n + 1) - Skipped(parts)] = v /\ v # ""
    BY <1>3, URLTokens, Zenon
  <2> QED BY <1>3, <2>1, Zenon
<1>5. v \in Text
  <2>1. n + 1 \in 1 .. Len(parts)
    BY <1>2
  <2> QED BY <2>1, Tokens, Zenon DEF Text
<1> HIDE DEF m, v, u
<1>6. /\ Append(url, v) \in Seq(Text) /\ Len(Append(url, v)) = m + 1
      /\ \A k \in 1 .. m : Append(url, v)[k] = url[k]
      /\ Append(url, v)[m + 1] = v
  BY <1>1, <1>3, <1>5
<1>7. 1 .. m + 1 = (1 .. m) \cup {m + 1} /\ n + 1 \in Skipped(parts) .. Len(parts)
  BY <1>1, <1>2, <1>3
<1>8. \A k \in 1 .. m + 1 : Append(url, v)[k] = u[k]
  BY <1>1, <1>4, <1>6, <1>7, Zenon
<1> QED BY <1>3, <1>4, <1>6, <1>7, <1>8, Zenon DEF BuildsURL, v, u

\* All tokens are done: the url is that of the endpoint.
LEMMA WholeURL ==
  ASSUME NEW parts \in Seq(STRING), WellFormedEndpoint(parts), NEW url, BuildsURL(url, parts, Len(parts))
  PROVE  url = URLOf(parts)
<1> DEFINE m == 1 + Len(parts) - Skipped(parts)
           u == URLOf(parts)
<1>1. url \in Seq(Text) /\ Len(url) = m /\ \A k \in 1 .. m : url[k] = u[k]
  BY Zenon DEF BuildsURL
<1>2. u \in Seq(Text) /\ Len(u) = m
  BY URLTokens, Zenon
<1> HIDE DEF m, u
<1>3. url = u
  BY <1>1, <1>2
<1> QED BY <1>3 DEF u

\* The first url has the scheme, and the tokens it takes the place of are done.
LEMMA BeginURL ==
  ASSUME NEW parts \in Seq(STRING), WellFormedEndpoint(parts), NEW before
  PROVE  BuildsURL(<<scheme(before, parts)>>, parts, IF parts[2] \in Schemes THEN 2 ELSE 1)
<1> DEFINE n == IF parts[2] \in Schemes THEN 2 ELSE 1
           x == scheme(before, parts)
           u == URLOf(parts)
<1>1. Skipped(parts) = n /\ u[1] = x /\ Len(parts) > n
  BY URLTokens, Zenon
<1>2. x \in Text
  BY Zenon DEF scheme, Text, Schemes
<1>3. n \in {1, 2} /\ Len(parts) \in Nat
  OBVIOUS
<1> HIDE DEF n, x, u
<1>4. n \in n .. Len(parts) /\ 1 + n - n = 1 /\ 1 .. 1 = {1}
  BY <1>1, <1>3
<1>5. <<x>> \in Seq(Text) /\ Len(<<x>>) = 1 /\ <<x>>[1] = x
  BY <1>2
<1> QED BY <1>1, <1>4, <1>5, Zenon DEF BuildsURL, n, x, u

LEMMA NextPlace ==
  \A N \in Nat : 0 \in 0 .. N /\ \A n \in 0 .. N : n < N => n \in Nat /\ n + 1 \in 1 .. N
OBVIOUS

LEMMA KvdbNext == KvdbOK /\ [Next]_vars => KvdbOK'
<1> SUFFICES ASSUME KvdbOK, [Next]_vars, call' = "kvdb" PROVE KvdbOK'
  BY DEF KvdbOK
<1>0. call = "kvdb" /\ in' = in
  BY SameCall
<1>1. CASE UNCHANGED vars
  BY <1>1 DEF vars, KvdbOK, AllWellFormed, Normalising, Asking, Refused
<1>2. /\ in.endpoints \in Seq(Seq(STRING) \ {<<>>}) /\ DOMAIN in.answers = DOMAIN in.endpoints
      /\ in.created \in BOOLEAN
      /\ IsClient(out) /\ Len(in.endpoints) \in Nat
      /\ DOMAIN in.endpoints = 1 .. Len(in.endpoints)
  BY <1>0 DEF KvdbOK
<1>3. (AllWellFormed' <=> AllWellFormed) /\ (Refused' <=> Refused)
  BY <1>0 DEF AllWellFormed, Refused
<1> DEFINE Goal ==
         /\ out'.outcome \in {"open", "normalise", "ask", "new", "ok", "error"}
         /\ out'.outcome = "open" => at' = 0 /\ token' = 0 /\ out'.urls = <<>>
         /\ out'.outcome = "normalise" => Normalising'
         /\ out'.outcome = "ask" => Asking'
         /\ out'.outcome \in {"new", "ok"} => URLsOf(out'.urls, in.endpoints, Len(in.endpoints))
         /\ out'.outcome = "ok" => in.created
         /\ out'.outcome = "error" => Refused
<1>4. ASSUME IsClient(out'), AllWellFormed => Goal PROVE KvdbOK'
  BY <1>0, <1>2, <1>3, <1>4 DEF KvdbOK
<1>5. ASSUME NEW i \in DOMAIN in.endpoints
      PROVE  in.endpoints[i] \in Seq(STRING) /\ in.endpoints[i] # <<>>
  BY <1>2
<1>6. CASE wipePXKvdb
  <2>1. /\ out.outcome = "open"
        /\ out' = [out EXCEPT !.outcome =
                      IF in.endpoints = <<>> \/ in.cluster = "" THEN "error" ELSE "normalise"]
        /\ at' = at /\ token' = token
    BY <1>6 DEF wipePXKvdb
  <2>2. /\ IsClient(out') /\ out'.urls = out.urls
        /\ out'.outcome = IF in.endpoints = <<>> \/ in.cluster = "" THEN "error" ELSE "normalise"
    BY <1>2, <2>1 DEF IsClient
  <2>3. ASSUME AllWellFormed PROVE Goal
    <3>1. in.endpoints # <<>> /\ at = 0 /\ token = 0 /\ out.urls = <<>>
      BY <1>0, <2>1, <2>3 DEF AllWellFormed, KvdbOK
    <3>2. CASE in.cluster = ""
      BY <2>2, <3>1, <3>2 DEF Refused
    <3>3. CASE in.cluster # ""
      <4>1. URLsOf(<<>>, in.endpoints, 0)
        <5>1. <<>> \in Seq(Seq(Text)) /\ Len(<<>>) = 0 /\ 1 .. 0 = {}
          OBVIOUS
        <5> QED BY <5>1, Zenon DEF URLsOf
      <4>2. at' = 0 /\ token' = 0 /\ out'.urls = <<>> /\ 0 \in 0 .. Len(in.endpoints)
        BY <1>2, <2>1, <2>2, <3>1, NextPlace, Zenon
      <4>3. Normalising'
        BY <1>0, <3>3, <4>1, <4>2, Zenon DEF Normalising
      <4> QED BY <2>2, <3>1, <3>3, <4>3
    <3> QED BY <3>2, <3>3
  <2> QED BY <1>4, <2>2, <2>3, Zenon
<1>7. CASE beginEndpoint
  <2> DEFINE parts == in.endpoints[at + 1]
             prefix == scheme(out.urlPrefix, parts)
  <2>1. out.outcome = "normalise" /\ token = 0 /\ at < Len(in.endpoints) /\ at' = at
    BY <1>7 DEF beginEndpoint
  <2>2. ASSUME out' = [out EXCEPT !.outcome = "error"], at = 0 /\ parts[1] # "etcd" PROVE KvdbOK'
    <3>1. IsClient(out')
      BY <1>2, <2>2 DEF IsClient
    <3>2. ~AllWellFormed
      <4>1. 1 \in DOMAIN in.endpoints
        BY <1>2, <2>1, <2>2
      <4>2. parts = in.endpoints[1]
        BY <2>2
      <4> QED BY <2>2, <4>1, <4>2, Zenon DEF AllWellFormed, WellFormedEndpoint
    <3> QED BY <1>4, <3>1, <3>2, Zenon
  <2>3. ASSUME AllWellFormed
        PROVE  /\ Normalising /\ at \in Nat /\ at + 1 \in 1 .. Len(in.endpoints)
               /\ parts \in Seq(STRING) /\ WellFormedEndpoint(parts)
    <3>1. Normalising
      BY <1>0, <2>1, <2>3 DEF KvdbOK
    <3>2. at \in Nat /\ at + 1 \in 1 .. Len(in.endpoints)
      BY <1>2, <2>1, <3>1, NextPlace, Zenon DEF Normalising
    <3> QED BY <1>2, <1>5, <2>3, <3>1, <3>2, Zenon DEF AllWellFormed
  <2>4. ASSUME out' = [out EXCEPT !.outcome = "panic"], Len(parts) = 1 PROVE KvdbOK'
    <3>1. IsClient(out')
      BY <1>2, <2>4 DEF IsClient
    <3>2. ~AllWellFormed
      <4>1. 1 \notin {3, 4}
        OBVIOUS
      <4> QED BY <2>3, <2>4, <4>1, Zenon DEF WellFormedEndpoint
    <3> QED BY <1>4, <3>1, <3>2, Zenon
  <2>5. ASSUME out' = [out EXCEPT !.urlPrefix = prefix, !.kvdbURL = <<prefix>>],
               token' = IF parts[2] \in Schemes THEN 2 ELSE 1
        PROVE  KvdbOK'
    <3>1. /\ IsClient(out') /\ out'.urls = out.urls /\ out'.kvdbURL = <<prefix>>
          /\ out'.outcome = "normalise"
      <4> HIDE DEF prefix
      <4> QED BY <1>2, <2>1, <2>5 DEF IsClient
    <3>2. ASSUME AllWellFormed PROVE Goal
      <4>1. BuildsURL(<<prefix>>, parts, token')
        BY <2>3, <2>5, <3>2, BeginURL, Zenon
      <4>2. Normalising'
        <5> HIDE DEF prefix
        <5> QED BY <1>0, <2>1, <2>3, <3>1, <3>2, <4>1, Zenon DEF Normalising
      <4> QED BY <3>1, <4>2
    <3> QED BY <1>4, <3>1, <3>2, Zenon
  <2> QED BY <1>7, <2>2, <2>4, <2>5, Zenon DEF beginEndpoint
<1>8. CASE readToken
  <2> DEFINE parts == in.endpoints[at + 1]
             v == parts[token + 1]
  <2>1. /\ out.outcome = "normalise" /\ token # 0 /\ token < Len(parts) /\ at' = at
        /\ token' = token + 1
        /\ out' = IF v = "" THEN out ELSE [out EXCEPT !.kvdbURL = Append(@, v)]
    BY <1>8 DEF readToken
  <2>2. IsClient(out')
    <3> HIDE DEF v
    <3>1. CASE v = ""
      BY <1>2, <2>1, <3>1
    <3>2. CASE v # ""
      <4>1. out' = [out EXCEPT !.kvdbURL = Append(out.kvdbURL, v)]
        BY <2>1, <3>2
      <4> QED BY <1>2, <4>1 DEF IsClient
    <3> QED BY <3>1, <3>2
  <2>3. ASSUME AllWellFormed PROVE Goal
    <3>1. Normalising /\ at < Len(in.endpoints) /\ BuildsURL(out.kvdbURL, parts, token)
      BY <1>0, <2>1, <2>3 DEF KvdbOK, Normalising
    <3>2. at \in Nat /\ at + 1 \in 1 .. Len(in.endpoints)
      BY <1>2, <3>1, NextPlace, Zenon DEF Normalising
    <3>3. parts \in Seq(STRING) /\ WellFormedEndpoint(parts)
      BY <1>2, <1>5, <2>3, <3>2, Zenon DEF AllWellFormed
    <3>4. token \in Nat
      <4>1. Skipped(parts) \in Nat /\ Len(parts) \in Nat /\ token \in Skipped(parts) .. Len(parts)
        BY <3>1, <3>3 DEF Skipped, BuildsURL
      <4> HIDE DEF parts
      <4> QED BY <4>1
    <3>5. v # "" /\ BuildsURL(Append(out.kvdbURL, v), parts, token + 1)
      BY <2>1, <3>1, <3>3, <3>4, AppendToken, Zenon
    <3>6. out' = [out EXCEPT !.kvdbURL = Append(out.kvdbURL, v)]
      BY <2>1, <3>5
    <3> HIDE DEF v
    <3>7. /\ out'.urls = out.urls /\ out'.kvdbURL = Append(out.kvdbURL, v)
          /\ out'.outcome = "normalise"
      BY <1>2, <2>1, <3>6 DEF IsClient
    <3>8. Normalising'
      BY <1>0, <2>1, <3>1, <3>5, <3>7, Zenon DEF Normalising
    <3> QED BY <3>7, <3>8
  <2> QED BY <1>4, <2>2, <2>3, Zenon
<1>9. CASE endEndpoint
  <2> DEFINE parts == in.endpoints[at + 1]
  <2>1. /\ out.outcome = "normalise" /\ token # 0 /\ token = Len(parts) /\ at' = at + 1
        /\ token' = 0 /\ out' = [out EXCEPT !.urls = Append(out.urls, out.kvdbURL)]
    BY <1>9 DEF endEndpoint
  <2>2. IsClient(out') /\ out'.urls = Append(out.urls, out.kvdbURL) /\ out'.outcome = "normalise"
    BY <1>2, <2>1 DEF IsClient
  <2>3. ASSUME AllWellFormed PROVE Goal
    <3>1. Normalising /\ at < Len(in.endpoints) /\ BuildsURL(out.kvdbURL, parts, Len(parts))
      BY <1>0, <2>1, <2>3 DEF KvdbOK, Normalising
    <3>2. at \in Nat /\ at + 1 \in 1 .. Len(in.endpoints)
      BY <1>2, <3>1, NextPlace, Zenon DEF Normalising
    <3>3. parts \in Seq(STRING) /\ WellFormedEndpoint(parts)
      BY <1>2, <1>5, <2>3, <3>2, Zenon DEF AllWellFormed
    <3>4. out.kvdbURL = URLOf(parts) /\ out.kvdbURL \in Seq(Text)
      BY <3>1, <3>3, WholeURL, Zenon DEF BuildsURL
    <3>5. URLsOf(out'.urls, in.endpoints, at + 1)
      BY <2>2, <3>1, <3>2, <3>4, AppendURL, Zenon DEF Normalising
    <3>6. at + 1 \in 0 .. Len(in.endpoints)
      BY <1>2, <3>2
    <3>7. Normalising'
      BY <1>0, <2>1, <3>1, <3>5, <3>6, Zenon DEF Normalising
    <3> QED BY <2>2, <3>7
  <2> QED BY <1>4, <2>2, <2>3, Zenon
<1>10. CASE endNormalise
  <2>1. /\ out.outcome = "normalise" /\ at = Len(in.endpoints) /\ at' = 0 /\ token' = token
        /\ out' = [out EXCEPT !.outcome = "ask"]
    BY <1>10 DEF endNormalise
  <2>2. IsClient(out') /\ out'.urls = out.urls /\ out'.outcome = "ask"
    BY <1>2, <2>1 DEF IsClient
  <2>3. ASSUME AllWellFormed PROVE Goal
    <3>1. URLsOf(out.urls, in.endpoints, Len(in.endpoints))
      BY <1>0, <2>1, <2>3 DEF KvdbOK, Normalising
    <3>2. 0 \in 0 .. Len(in.endpoints) - 1 /\ 1 .. 0 = {}
      BY <1>2, <2>3 DEF AllWellFormed
    <3>3. Asking'
      BY <1>0, <2>1, <2>2, <3>1, <3>2, Zenon DEF Asking
    <3> QED BY <2>2, <3>3
  <2> QED BY <1>4, <2>2, <2>3, Zenon
<1>11. CASE askVersion
  <2> DEFINE answer == in.answers[at + 1]
  <2>1. /\ out.outcome = "ask" /\ at' = at + 1 /\ token' = token
        /\ out' = IF answer = "down"
                  THEN [out EXCEPT !.outcome = IF at + 1 = Len(in.endpoints) THEN "error" ELSE @]
                  ELSE IF answer = "odd" THEN [out EXCEPT !.outcome = "error"]
                  ELSE [out EXCEPT !.outcome = "new", !.version = answer]
    BY <1>11 DEF askVersion
  <2>2. /\ IsClient(out') /\ out'.urls = out.urls
        /\ out'.outcome = IF answer = "down"
                          THEN IF at + 1 = Len(in.endpoints) THEN "error" ELSE "ask"
                          ELSE IF answer = "odd" THEN "error" ELSE "new"
    <3> HIDE DEF answer
    <3> QED BY <1>2, <2>1 DEF IsClient
  <2>3. ASSUME AllWellFormed PROVE Goal
    <3>1. /\ at \in 0 .. Len(in.endpoints) - 1 /\ URLsOf(out.urls, in.endpoints, Len(in.endpoints))
          /\ \A k \in 1 .. at : in.answers[k] = "down"
      BY <1>0, <2>1, <2>3 DEF KvdbOK, Asking
    <3>2. at \in Nat /\ at + 1 \in DOMAIN in.answers /\ 1 .. at + 1 = (1 .. at) \cup {at + 1}
      BY <1>2, <3>1
    <3>3. CASE answer = "down" /\ at + 1 = Len(in.endpoints)
      <4>1. \A k \in DOMAIN in.answers : in.answers[k] = "down"
        BY <1>2, <3>1, <3>2, <3>3, Zenon
      <4> QED BY <2>2, <3>3, <4>1 DEF Refused
    <3>4. CASE answer = "down" /\ at + 1 # Len(in.endpoints)
      <4>1. at + 1 \in 0 .. Len(in.endpoints) - 1
        BY <1>2, <3>1, <3>4
      <4>2. \A k \in 1 .. at + 1 : in.answers[k] = "down"
        BY <3>1, <3>2, <3>4, Zenon
      <4>3. Asking'
        BY <1>0, <2>1, <2>2, <3>1, <4>1, <4>2, Zenon DEF Asking
      <4> QED BY <2>2, <3>4, <4>3
    <3>5. CASE answer = "odd"
      <4>1. out'.outcome = "error"
        BY <2>2, <3>5
      <4> QED BY <3>2, <3>5, <4>1 DEF Refused
    <3>6. CASE answer \notin {"down", "odd"}
      BY <2>2, <3>1, <3>6
    <3> QED BY <3>3, <3>4, <3>5, <3>6
  <2> QED BY <1>4, <2>2, <2>3, Zenon
<1>12. CASE newClient
  <2>1. /\ out.outcome = "new" /\ at' = at /\ token' = token
        /\ out' = [out EXCEPT !.outcome = IF in.created THEN "ok" ELSE "error"]
    BY <1>12 DEF newClient
  <2>2. /\ IsClient(out') /\ out'.urls = out.urls
        /\ out'.outcome = IF in.created THEN "ok" ELSE "error"
    BY <1>2, <2>1 DEF IsClient
  <2>3. ASSUME AllWellFormed PROVE Goal
    <3>1. URLsOf(out'.urls, in.endpoints, Len(in.endpoints))
      BY <1>0, <2>1, <2>2, <2>3 DEF KvdbOK
    <3>2. CASE in.created
      <4>1. out'.outcome = "ok"
        BY <2>2, <3>2
      <4> QED BY <3>1, <3>2, <4>1
    <3>3. CASE ~in.created
      <4>1. out'.outcome = "error"
        BY <2>2, <3>3
      <4> QED BY <3>3, <4>1 DEF Refused
    <3> QED BY <3>2, <3>3
  <2> QED BY <1>4, <2>2, <2>3, Zenon
<1> HIDE DEF Goal
<1> QED
  BY <1>0, <1>1, <1>6, <1>7, <1>8, <1>9, <1>10, <1>11, <1>12
  DEF Next, ParseConfig, WipeKvdb, RefreshPorts, CheckPods, AskGate

(***************************************************************************)
(* Any number of well formed endpoints: each keeps its own scheme, host    *)
(* and port, and one that answers is enough, however many are down: a      *)
(* client is returned exactly if kvdb.New returns one.                     *)
(***************************************************************************)
THEOREM EndpointsAreKept == Spec => []EndpointsAreIndependent
<1>1. KvdbOK => EndpointsAreIndependent
  <2> SUFFICES ASSUME KvdbOK, Returned("kvdb"), AllWellFormed
               PROVE  /\ out.outcome # "panic"
                      /\ out.outcome = "ok" =>
                            out.urls = [i \in DOMAIN in.endpoints |-> URLOf(in.endpoints[i])]
                      /\ (\E i \in DOMAIN in.answers : in.answers[i] # "down") /\ in.cluster # ""
                            /\ (\A i \in DOMAIN in.answers : in.answers[i] # "odd")
                         => (out.outcome = "ok" <=> in.created)
    BY Zenon DEF EndpointsAreIndependent, AllWellFormed
  <2>1. /\ out.outcome \in {"ok", "error"}
        /\ out.outcome = "error" => Refused
        /\ out.outcome = "ok" => in.created /\ URLsOf(out.urls, in.endpoints, Len(in.endpoints))
        /\ in.endpoints \in Seq(Seq(STRING) \ {<<>>})
    BY DEF KvdbOK, Returned
  <2>2. ASSUME out.outcome = "ok"
        PROVE  out.urls = [i \in DOMAIN in.endpoints |-> URLOf(in.endpoints[i])]
    <3> DEFINE S == Seq(Text)
    <3>1. /\ out.urls \in Seq(S) /\ Len(out.urls) = Len(in.endpoints)
          /\ \A k \in 1 .. Len(in.endpoints) : out.urls[k] = URLOf(in.endpoints[k])
      BY <2>1, <2>2, Zenon DEF URLsOf
    <3> HIDE DEF S
    <3>2. /\ out.urls = [i \in 1 .. Len(out.urls) |-> out.urls[i]]
          /\ DOMAIN in.endpoints = 1 .. Len(in.endpoints)
      BY <2>1, <3>1
    <3> QED BY <3>1, <3>2
  <2>3. out.outcome = "error" => ~((\E i \in DOMAIN in.answers : in.answers[i] # "down")
                                   /\ in.cluster # "" /\ in.created
                                   /\ (\A i \in DOMAIN in.answers : in.answers[i] # "odd"))
    BY <2>1, Zenon DEF Refused
  <2>4. out.outcome # "panic"
    BY <2>1
  <2>5. out.outcome = "ok" => in.created
    BY <2>1
  <2>6. out.outcome \in {"ok", "error"} /\ "ok" # "error"
    BY <2>1
  <2> QED BY <2>2, <2>3, <2>4, <2>5, <2>6, Zenon
<1> QED
  BY <1>1, InitKvdb, KvdbNext, PTL DEF Spec
=============================================================================
