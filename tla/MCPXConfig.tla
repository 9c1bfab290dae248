----------------------------- MODULE MCPXConfig -----------------------------
(***************************************************************************)
(* PXConfig for TLC: all argument lists of up to three arguments and       *)
(* longer ones with repeated options; up to three endpoints, four ports,   *)
(* two pods and two nodes, with every special case of the texts, and two   *)
(* repeated refreshes of the services.                                     *)
(***************************************************************************)
EXTENDS PXConfig, TLC

Words == {"name", "one", "two", "lines", "broken", "u:p", "$U:$P", "u:$P"}
Arguments == {"-b", "-c", "-k", "-userpwd", "-ca"} \cup Words

MCArgLists == BoundedSeq(Arguments, 3)
                 \cup {<<"-k", a, "-c", "name", "-k", b>> : a, b \in Words}
                 \cup {<<"-k", "one", "-c", "name", "-userpwd", w>> : w \in Words}
                 \cup {<<"-userpwd", w, "-b", "-userpwd", x>> : w, x \in Words}

MCRecords == [a \in Arguments |->
    CASE a = "two" -> << <<"etcd:http://h1:2379", "etcd:http://h2:2379">> >>
      [] a = "lines" -> << <<"l1">>, <<"l2">> >>
      [] a = "broken" -> Malformed
      [] OTHER -> << <<a>> >>]

MCParts == [a \in Arguments |->
    CASE a = "u:p" -> <<"u", "p">>
      [] a = "$U:$P" -> <<"$U", "$P">>
      [] a = "u:$P" -> <<"u", "$P">>
      [] OTHER -> <<a>>]

Entries(n) == {[name |-> n, value |-> v, from |-> f] : v \in {"", "text"}, f \in {"none", "secret", "other"}}

MCEnvs == {<<>>} \cup {<<u>> : u \in Entries("U")} \cup {<<u, p>> : u \in Entries("U"), p \in Entries("P")}

MCVar == ("$U" :> "U") @@ ("$P" :> "P")
MCSecrets == ("U" :> "admin") @@ ("P" :> "")

Endpoints == {<<"etcd", "http", "//h", "1">>, <<"etcd", "https", "//h", "2">>, <<"etcd", "//h", "3">>,
              <<"consul", "//h", "4">>, <<"etcd">>}
MCEndpointLists == BoundedSeq(Endpoints, 3)

Named == [type |-> "name", number |-> 0]
MCServices == UNION {[D -> {Named, Number(9001), Number(17001)}] :
                        D \in {{9001}, {9001, 9019}, {9001, 9020, 80}, {80}}}
MCAPIServices == {<<>>} \cup [{9001, 80} -> {Named, Number(9001)}]

Pods == [managed : BOOLEAN, volumes : BoundedSeq(UsesPX \cup Unknown \cup NotPX, 2)]
MCPodLists == {<<p>> : p \in Pods} \cup {<<p, q>> : p \in Pods, q \in [managed : {FALSE}, volumes : {<<>>, <<"direct">>, <<"classFails">>}]}

MCLabels == {<<1, 2, 16>>, <<1, 3, 1>>, <<1, 4, 0>>, <<1, 20, 0>>, <<2, 0, 0>>, NoLabel}
MCLabelLists == BoundedSeq(MCLabels, 2)
MCTags == {<<1, 2, 17>>, <<1, 3, 3>>, <<1, 3, 4>>, <<1, 3, 5>>, <<1, 4, 0, 1>>, <<2, 0, 0>>,
           <<1, 3, 30>>, <<1, 30, 0>>, <<1, 33, 3>>, <<1, 43, 34>>, <<2, 1>>, <<>>}
=============================================================================
